---------------------------- MODULE Spec2Model ----------------------------
(***************************************************************************)
(* A model of scripts/merge-apis-2.py: the normalizer, the lookup index,  *)
(* the tiered classifier, the sorted insertion and main()'s write path.   *)
(*                                                                         *)
(* Strings are sequences of one-character strings, so that lower(),       *)
(* strip(), the regular expressions of slugify and urlparse's splitting   *)
(* are computed character by character.  The enum `status`, the           *)
(* description, date-checked and try-it are never taken apart by the      *)
(* code and are plain values.  None is the string "None".                 *)
(***************************************************************************)
EXTENDS Naturals, Sequences, FiniteSets

(***************************************************************************)
(* Characters                                                              *)
(***************************************************************************)

\* The characters of the model, in code-point order (Python compares strings
\* by code point).
Ascii ==
    << " ", "!", "#", "&", "-", ".", "/",
       "0", "1", "2", "3", "4", "5", "6", "7", "8", "9",
       ":", "?",
       "A", "B", "C", "D", "E", "F", "G", "H", "I", "J", "K", "L", "M",
       "N", "O", "P", "Q", "R", "S", "T", "U", "V", "W", "X", "Y", "Z",
       "[", "]", "_",
       "a", "b", "c", "d", "e", "f", "g", "h", "i", "j", "k", "l", "m",
       "n", "o", "p", "q", "r", "s", "t", "u", "v", "w", "x", "y", "z" >>

UpperLetters ==
    << "A", "B", "C", "D", "E", "F", "G", "H", "I", "J", "K", "L", "M",
       "N", "O", "P", "Q", "R", "S", "T", "U", "V", "W", "X", "Y", "Z" >>

LowerLetters ==
    << "a", "b", "c", "d", "e", "f", "g", "h", "i", "j", "k", "l", "m",
       "n", "o", "p", "q", "r", "s", "t", "u", "v", "w", "x", "y", "z" >>

Digits == {"0", "1", "2", "3", "4", "5", "6", "7", "8", "9"}

Range(s) == {s[i] : i \in DOMAIN s}

ord(c) == CHOOSE i \in DOMAIN Ascii : Ascii[i] = c

IsUpper(c) == c \in Range(UpperLetters)

IsLower(c) == c \in Range(LowerLetters)

IsSpace(c) == c = " "

\* str.lower() on one character
LowerChar(c) ==
    IF IsUpper(c)
    THEN LowerLetters[CHOOSE i \in DOMAIN UpperLetters : UpperLetters[i] = c]
    ELSE c

(***************************************************************************)
(* The str methods the code uses                                           *)
(***************************************************************************)

lower(s) == [i \in DOMAIN s |-> LowerChar(s[i])]

\* s[a:] and s[:b] (0-based slice bounds, as Python's)
From(s, a) == SubSeq(s, a + 1, Len(s))

UpTo(s, b) == SubSeq(s, 1, b)

RECURSIVE lstrip(_, _)
lstrip(s, chars) ==
    IF s # << >> /\ Head(s) \in chars THEN lstrip(Tail(s), chars) ELSE s

RECURSIVE rstrip(_, _)
rstrip(s, chars) ==
    IF s # << >> /\ s[Len(s)] \in chars
    THEN rstrip(UpTo(s, Len(s) - 1), chars)
    ELSE s

\* str.strip() with no argument strips whitespace; strip("-") strips hyphens
strip(s, chars) == rstrip(lstrip(s, chars), chars)

Whitespace == {c \in Range(Ascii) : IsSpace(c)}

startswith(s, p) == Len(s) >= Len(p) /\ UpTo(s, Len(p)) = p

\* str.find(c): the 0-based index of the first c, or -1 (here: Len(s) + 1
\* stands for "not found" where the caller only tests for membership)
Contains(s, c) == \E i \in DOMAIN s : s[i] = c

FirstOf(s, chars) ==
    IF \E i \in DOMAIN s : s[i] \in chars
    THEN CHOOSE i \in DOMAIN s :
            s[i] \in chars /\ \A j \in 1..(i - 1) : s[j] \notin chars
    ELSE Len(s) + 1

\* the lexicographic order of Python's str comparison
RECURSIVE StrLess(_, _)
StrLess(a, b) ==
    IF b = << >> THEN FALSE
    ELSE IF a = << >> THEN TRUE
    ELSE IF Head(a) = Head(b) THEN StrLess(Tail(a), Tail(b))
    ELSE ord(Head(a)) < ord(Head(b))

(***************************************************************************)
(* Transformation functions                                                *)
(***************************************************************************)

AUTH_MAP ==
    { << << >>, <<"n","o","n","e">> >>,
      << <<"a","p","i","k","e","y">>, <<"a","p","i","-","k","e","y">> >>,
      << <<"o","a","u","t","h">>, <<"o","a","u","t","h">> >>,
      << <<"x","-","m","a","s","h","a","p","e","-","k","e","y">>,
         <<"x","-","m","a","s","h","a","p","e","-","k","e","y">> >>,
      << <<"u","s","e","r","-","a","g","e","n","t">>,
         <<"u","s","e","r","-","a","g","e","n","t">> >>,
      << <<"y","e","s">>, <<"a","p","i","-","k","e","y">> >> }

GENERIC_DOMAINS ==
    { <<"g","i","t","h","u","b",".","c","o","m">>,
      <<"g","i","t","h","u","b",".","i","o">>,
      <<"g","i","t","l","a","b",".","c","o","m">>,
      <<"b","i","t","b","u","c","k","e","t",".","o","r","g">>,
      <<"h","e","r","o","k","u","a","p","p",".","c","o","m">>,
      <<"n","e","t","l","i","f","y",".","a","p","p">>,
      <<"v","e","r","c","e","l",".","a","p","p">>,
      <<"r","e","n","d","e","r",".","c","o","m">>,
      <<"r","e","p","l","i","t",".","c","o","m">>,
      <<"g","l","i","t","c","h",".","m","e">>,
      <<"f","i","r","e","b","a","s","e",".","g","o","o","g","l","e",".","c","o","m">>,
      <<"d","o","c","u","m","e","n","t","e","r",".","g","e","t","p","o","s","t","m","a","n",".","c","o","m">>,
      <<"r","a","p","i","d","a","p","i",".","c","o","m">>,
      <<"r","e","a","d","m","e",".","i","o">>,
      <<"s","w","a","g","g","e","r",".","i","o">>,
      <<"p","o","s","t","m","a","n",".","c","o","m">>,
      <<"a","p","i","a","r","y",".","i","o">> }

IsSlugChar(c) == IsLower(c) \/ c \in Digits

\* re.sub(r"[&]", "", slug)
RemoveAmp(s) == SelectSeq(s, LAMBDA c : c # "&")

\* re.sub(r"[^a-z0-9]+", "-", slug): every maximal run of other characters
\* becomes one hyphen
RECURSIVE CollapseRuns(_)
CollapseRuns(s) ==
    IF s = << >> THEN << >>
    ELSE IF IsSlugChar(Head(s)) THEN <<Head(s)>> \o CollapseRuns(Tail(s))
    ELSE LET k == IF \E i \in DOMAIN s : IsSlugChar(s[i])
                  THEN CHOOSE i \in DOMAIN s :
                          IsSlugChar(s[i]) /\ \A j \in 1..(i - 1) : ~IsSlugChar(s[j])
                  ELSE Len(s) + 1
         IN  <<"-">> \o CollapseRuns(SubSeq(s, k, Len(s)))

\* a faulty variant of slugify: "&" is not deleted first, it is replaced by
\* a hyphen like any other character
slugify_KeepsAmp(text) == strip(CollapseRuns(lower(text)), {"-"})

slugify(text) == strip(CollapseRuns(RemoveAmp(lower(text))), {"-"})

\* a faulty variant of normalize_auth: a value the table does not hold is
\* passed through in lowercase, as parse_auth of parse-apis.py does
normalize_auth_PassThrough(raw) ==
    LET key == lower(strip(raw, Whitespace))
    IN  IF \E p \in AUTH_MAP : p[1] = key
        THEN (CHOOSE p \in AUTH_MAP : p[1] = key)[2]
        ELSE key

normalize_auth(raw) ==
    LET key == lower(strip(raw, Whitespace))
    IN  IF \E p \in AUTH_MAP : p[1] = key
        THEN (CHOOSE p \in AUTH_MAP : p[1] = key)[2]
        ELSE <<"a","p","i","-","k","e","y">>

\* urllib.parse's scheme_chars
IsSchemeChar(c) == IsLower(c) \/ IsUpper(c) \/ c \in Digits \/ c \in {"-", "."}

\* urllib.parse.urlparse, as far as the code reads its result: the netloc, the
\* path, and whether it raises ValueError("Invalid IPv6 URL").  The model's
\* characters hold no ";" (params) and no "]", so a "[" in the netloc is
\* always unmatched.
urlparse(url) ==
    LET i      == FirstOf(url, {":"})
        scheme == /\ i <= Len(url)
                  /\ i > 1
                  /\ (IsLower(url[1]) \/ IsUpper(url[1]))
                  /\ \A j \in 1..(i - 1) : IsSchemeChar(url[j])
        rest   == IF scheme THEN From(url, i) ELSE url
        slashes == startswith(rest, <<"/", "/">>)
        after  == From(rest, 2)
        delim  == FirstOf(after, {"/", "?", "#"})
        netloc == IF slashes THEN UpTo(after, delim - 1) ELSE << >>
        tail   == IF slashes THEN From(after, delim - 1) ELSE rest
        nofrag == UpTo(tail, FirstOf(tail, {"#"}) - 1)
        path   == UpTo(nofrag, FirstOf(nofrag, {"?"}) - 1)
    IN  [netloc |-> netloc, path |-> path, raises |-> Contains(netloc, "[")]

\* host.startswith("www.") and host[4:]
StripWww(host) ==
    IF startswith(host, <<"w","w","w",".">>) THEN From(host, 4) ELSE host

\* a faulty variant of normalize_url: a leading "www." stays in the host
normalize_url_KeepsWww(url) ==
    LET parsed == urlparse(rstrip(strip(url, Whitespace), {"/"}))
    IN  lower(parsed.netloc) \o rstrip(parsed.path, {"/"})

normalize_url(url) ==
    LET parsed == urlparse(rstrip(strip(url, Whitespace), {"/"}))
    IN  StripWww(lower(parsed.netloc)) \o rstrip(parsed.path, {"/"})

\* a faulty variant of get_domain: of a host of more than two labels it keeps
\* the last two
get_domain_LastTwoLabels(url) ==
    LET host == StripWww(lower(urlparse(strip(url, Whitespace)).netloc))
        dots == {i \in DOMAIN host : host[i] = "."}
    IN  IF Cardinality(dots) < 2 THEN host
        ELSE LET last == CHOOSE i \in dots : \A j \in dots : j <= i
                 cut  == CHOOSE i \in dots \ {last} :
                             \A j \in dots \ {last} : j <= i
             IN  From(host, cut)

get_domain(url) == StripWww(lower(urlparse(strip(url, Whitespace)).netloc))

\* whether normalize_url / get_domain raise on this URL
UrlRaises(url) ==
    \/ urlparse(rstrip(strip(url, Whitespace), {"/"})).raises
    \/ urlparse(strip(url, Whitespace)).raises

None == "None"

\* a faulty variant of transform_entry: it stores the lowercased lookup key
\* as the record's name
transform_entry_LowerName(src) ==
    [ name        |-> lower(src.API),
      url         |-> src.Link,
      description |-> src.Description,
      auth        |-> normalize_auth(src.Auth),
      https       |-> src.HTTPS,
      cors        |-> lower(src.Cors),
      category    |-> slugify(src.Category),
      status      |-> "pending",
      notes       |-> << >>,
      date_checked |-> None,
      try_it      |-> None ]

transform_entry(src) ==
    [ name        |-> src.API,
      url         |-> src.Link,
      description |-> src.Description,
      auth        |-> normalize_auth(src.Auth),
      https       |-> src.HTTPS,
      cors        |-> lower(src.Cors),
      category    |-> slugify(src.Category),
      status      |-> "pending",
      notes       |-> << >>,
      date_checked |-> None,
      try_it      |-> None ]


(***************************************************************************)
(* Lookup structures                                                       *)
(***************************************************************************)

\* dict.get(key, [])
Get(d, key) == IF key \in DOMAIN d THEN d[key] ELSE << >>

\* a faulty variant of SetDefaultAppend: the value goes to the front of the
\* key's list
SetDefaultAppend_Prepends(d, key, v) ==
    [k \in DOMAIN d \cup {key} |->
        IF k = key THEN <<v>> \o Get(d, key) ELSE d[k]]

\* d.setdefault(key, []).append(v)
SetDefaultAppend(d, key, v) ==
    [k \in DOMAIN d \cup {key} |->
        IF k = key THEN Append(Get(d, key), v) ELSE d[k]]

EmptyDict == [k \in {} |-> << >>]

EmptyLookup ==
    [by_name |-> EmptyDict, by_url |-> EmptyDict,
     by_domain |-> EmptyDict, by_name_cat |-> EmptyDict]

\* The lists of the index hold references to the target's own dicts: a
\* reference is the record's position in `target`.
RECURSIVE BuildFrom(_, _, _)
BuildFrom(target, i, lk) ==
    IF i > Len(target) THEN lk
    ELSE LET api      == target[i]
             name_key == lower(api.name)
             url_key  == normalize_url(api.url)
             domain   == get_domain(api.url)
             cat_key  == <<name_key, api.category>>
         IN  BuildFrom(target, i + 1,
                [by_name     |-> SetDefaultAppend(lk.by_name, name_key, i),
                 by_url      |-> SetDefaultAppend(lk.by_url, url_key, i),
                 by_domain   |-> IF domain # << >> /\ domain \notin GENERIC_DOMAINS
                                 THEN SetDefaultAppend(lk.by_domain, domain, i)
                                 ELSE lk.by_domain,
                 by_name_cat |-> SetDefaultAppend(lk.by_name_cat, cat_key, i)])

build_lookup(target) == BuildFrom(target, 1, EmptyLookup)

(***************************************************************************)
(* Classification                                                          *)
(***************************************************************************)

MergeResults ==
    [duplicates |-> << >>, renamed |-> << >>, url_updates |-> << >>,
     url_updates_applied |-> << >>, cross_category |-> << >>,
     domain_matches |-> << >>, new_apis |-> << >>]

\* "URL updated from public-apis-2 (was broken). Previous: "
Provenance ==
    <<"U","R","L"," ","u","p","d","a","t","e","d"," ","f","r","o","m"," ",
      "p","u","b","l","i","c","-","a","p","i","s","-","2"," ",
      "(","w","a","s"," ","b","r","o","k","e","n",")","."," ",
      "P","r","e","v","i","o","u","s",":"," ">>

\* a faulty variant of IsBroken: every record that is not known to work is
\* repaired
IsBroken_NotWorking(existing) == existing.status # "working"

\* a faulty variant of IsBroken: a pending record is repaired too
IsBroken_OrPending(existing) == existing.status \in {"broken", "pending"}

\* line 219: the auto-update is for a broken record only
IsBroken(existing) == existing.status = "broken"

\* a faulty variant of AutoUpdate: the new notes replace the previous notes
AutoUpdate_DropsNotes(existing, url) ==
    [existing EXCEPT !.url = url,
                     !.status = "pending",
                     !.notes = Provenance,
                     !.date_checked = None,
                     !.try_it = None]

\* a faulty variant of AutoUpdate: it also refreshes the https flag from the
\* scheme of the new URL
AutoUpdate_RefreshesHttps(existing, url) ==
    [existing EXCEPT !.url = url,
                     !.status = "pending",
                     !.notes = Provenance \o existing.notes,
                     !.date_checked = None,
                     !.try_it = None,
                     !.https = startswith(url, <<"h","t","t","p","s">>)]

\* a faulty variant of AutoUpdate: the status is left as it was
AutoUpdate_StaysBroken(existing, url) ==
    [existing EXCEPT !.url = url,
                     !.notes = Provenance \o existing.notes,
                     !.date_checked = None,
                     !.try_it = None]

\* a faulty variant of AutoUpdate: the date of the last check is kept
AutoUpdate_KeepsDate(existing, url) ==
    [existing EXCEPT !.url = url,
                     !.status = "pending",
                     !.notes = Provenance \o existing.notes,
                     !.try_it = None]

\* lines 220-224: the in-place update of the matched target record
AutoUpdate(existing, url) ==
    [existing EXCEPT !.url = url,
                     !.status = "pending",
                     !.notes = Provenance \o existing.notes,
                     !.date_checked = None,
                     !.try_it = None]

\* a faulty variant of TierOf: tier 1 asks for one record that has both the
\* name and the URL
TierOf_SameRecord(name_matches, url_matches, cat_matches, domain, domain_hits) ==
    IF Range(name_matches) \cap Range(url_matches) # {} THEN 1
    ELSE IF url_matches # << >> THEN 2
    ELSE IF cat_matches # << >> THEN 3
    ELSE IF name_matches # << >> THEN 4
    ELSE IF domain # << >> /\ domain \notin GENERIC_DOMAINS /\ domain_hits # << >>
         THEN 5
    ELSE 6

\* a faulty variant of TierOf: the (name, category) test of tier 3 comes
\* before the tests of tiers 1 and 2
TierOf_UrlUpdateFirst(name_matches, url_matches, cat_matches, domain, domain_hits) ==
    IF cat_matches # << >> THEN 3
    ELSE IF name_matches # << >> /\ url_matches # << >> THEN 1
    ELSE IF url_matches # << >> THEN 2
    ELSE IF name_matches # << >> THEN 4
    ELSE IF domain # << >> /\ domain \notin GENERIC_DOMAINS /\ domain_hits # << >>
         THEN 5
    ELSE 6

\* The if/continue chain of the loop body: the number of the first tier whose
\* test succeeds.
TierOf(name_matches, url_matches, cat_matches, domain, domain_hits) ==
    IF name_matches # << >> /\ url_matches # << >> THEN 1
    ELSE IF url_matches # << >> THEN 2
    ELSE IF cat_matches # << >> THEN 3
    ELSE IF name_matches # << >> THEN 4
    ELSE IF domain # << >> /\ domain \notin GENERIC_DOMAINS /\ domain_hits # << >>
         THEN 5
    ELSE 6

\* a faulty variant of UrlUpdate: it repairs every broken record of the
\* (name, category) list and reports one update
UrlUpdate_AllMatches(target, results, transformed, cat_matches) ==
    LET existing == target[cat_matches[1]]
        hit      == {cat_matches[n] : n \in DOMAIN cat_matches}
        entry    == [name           |-> transformed.name,
                     category       |-> transformed.category,
                     current_url    |-> existing.url,
                     current_status |-> existing.status,
                     source_url     |-> transformed.url,
                     action         |-> IF IsBroken(existing)
                                        THEN "auto-updated" ELSE "flagged"]
    IN  IF IsBroken(existing)
        THEN [target  |-> [i \in DOMAIN target |->
                              IF i \in hit /\ IsBroken(target[i])
                              THEN AutoUpdate(target[i], transformed.url)
                              ELSE target[i]],
              results |-> [results EXCEPT !.url_updates_applied = Append(@, entry)]]
        ELSE [target  |-> target,
              results |-> [results EXCEPT !.url_updates = Append(@, entry)]]

\* lines 210-233: tier 3 reports the URL difference against the first record
\* of the (name, category) list and repairs that record if it is broken
UrlUpdate(target, results, transformed, cat_matches) ==
    LET j        == cat_matches[1]
        existing == target[j]
        entry    == [name           |-> transformed.name,
                     category       |-> transformed.category,
                     current_url    |-> existing.url,
                     current_status |-> existing.status,
                     source_url     |-> transformed.url]
    IN  IF IsBroken(existing)
        THEN [target  |-> [target EXCEPT ![j] = AutoUpdate(existing, transformed.url)],
              results |-> [results EXCEPT !.url_updates_applied = Append(@,
                  [name           |-> entry.name,
                   category       |-> entry.category,
                   current_url    |-> entry.current_url,
                   current_status |-> entry.current_status,
                   source_url     |-> entry.source_url,
                   action         |-> "auto-updated"])]]
        ELSE [target  |-> target,
              results |-> [results EXCEPT !.url_updates = Append(@,
                  [name           |-> entry.name,
                   category       |-> entry.category,
                   current_url    |-> entry.current_url,
                   current_status |-> entry.current_status,
                   source_url     |-> entry.source_url,
                   action         |-> "flagged"])]]

\* a faulty variant of DomainMatch: the same-domain sibling suppresses the
\* insertion
DomainMatch_ReportOnly(results, transformed, existing) ==
    [results EXCEPT
        !.domain_matches = Append(@,
            [source_name       |-> transformed.name,
             source_url        |-> transformed.url,
             source_category   |-> transformed.category,
             existing_name     |-> existing.name,
             existing_url      |-> existing.url,
             existing_category |-> existing.category,
             action            |-> "added-as-new"])]

\* lines 255-267: tier 5 notes the same-domain sibling in the report and
\* queues the record as new
DomainMatch(results, transformed, existing) ==
    [results EXCEPT
        !.domain_matches = Append(@,
            [source_name       |-> transformed.name,
             source_url        |-> transformed.url,
             source_category   |-> transformed.category,
             existing_name     |-> existing.name,
             existing_url      |-> existing.url,
             existing_category |-> existing.category,
             action            |-> "added-as-new"]),
        !.new_apis = Append(@, transformed)]

\* One iteration of the loop of classify_and_merge over source record src:
\* the target and the results after it.
ClassifyOne(src, target, lookup, results) ==
    LET transformed  == transform_entry(src)
        name_key     == lower(transformed.name)
        url_key      == normalize_url(transformed.url)
        domain       == get_domain(transformed.url)
        category     == transformed.category
        name_matches == Get(lookup.by_name, name_key)
        url_matches  == Get(lookup.by_url, url_key)
        cat_matches  == Get(lookup.by_name_cat, <<name_key, category>>)
        domain_hits  == Get(lookup.by_domain, domain)
        tier == TierOf(name_matches, url_matches, cat_matches, domain, domain_hits)
    IN  CASE tier = 1 ->
               [target  |-> target,
                results |-> [results EXCEPT !.duplicates = Append(@, transformed)]]
          [] tier = 2 ->
               LET existing == target[url_matches[1]]
               IN  [target  |-> target,
                    results |-> [results EXCEPT !.renamed = Append(@,
                        [source_name   |-> transformed.name,
                         existing_name |-> existing.name,
                         url           |-> transformed.url,
                         category      |-> category])]]
          [] tier = 3 ->
               UrlUpdate(target, results, transformed, cat_matches)
          [] tier = 4 ->
               LET existing == target[name_matches[1]]
               IN  [target  |-> target,
                    results |-> [results EXCEPT !.cross_category = Append(@,
                        [source_name       |-> transformed.name,
                         source_category   |-> category,
                         existing_name     |-> existing.name,
                         existing_category |-> existing.category,
                         source_url        |-> transformed.url,
                         existing_url      |-> existing.url])]]
          [] tier = 5 ->
               [target  |-> target,
                results |-> DomainMatch(results, transformed, target[domain_hits[1]])]
          [] OTHER ->
               [target  |-> target,
                results |-> [results EXCEPT !.new_apis = Append(@, transformed)]]

(***************************************************************************)
(* Insertion                                                               *)
(***************************************************************************)

\* sorted(by_cat.keys())
RECURSIVE SortedKeys(_)
SortedKeys(keys) ==
    IF keys = {} THEN << >>
    ELSE LET least == CHOOSE k \in keys : \A o \in keys : ~StrLess(o, k)
         IN  <<least>> \o SortedKeys(keys \ {least})

\* sorted(entries, key=lambda a: a["name"].lower()): a stable sort, so an
\* entry goes after the entries whose key is not greater than its own
InsertByName(sorted, api) ==
    LET key == lower(api.name)
        n   == Cardinality({i \in DOMAIN sorted : ~StrLess(key, lower(sorted[i].name))})
    IN  UpTo(sorted, n) \o <<api>> \o From(sorted, n)

RECURSIVE SortedByName(_)
SortedByName(entries) ==
    IF entries = << >> THEN << >>
    ELSE InsertByName(SortedByName(UpTo(entries, Len(entries) - 1)),
                      entries[Len(entries)])

RECURSIVE ExtendAll(_, _)
ExtendAll(all, cats) ==
    IF cats = << >> THEN << >>
    ELSE SortedByName(SelectSeq(all, LAMBDA a : a.category = Head(cats)))
            \o ExtendAll(all, Tail(cats))

\* a faulty variant of insert_sorted: the new entries are appended to the
\* existing ones and nothing is grouped or sorted
insert_sorted_Appends(existing, new_entries) == existing \o new_entries

\* a faulty variant of insert_sorted: the loop over new_entries is missing
insert_sorted_ExistingOnly(existing, new_entries) ==
    ExtendAll(existing,
              SortedKeys({existing[i].category : i \in DOMAIN existing}))

insert_sorted(existing, new_entries) ==
    LET all == existing \o new_entries
    IN  ExtendAll(all, SortedKeys({all[i].category : i \in DOMAIN all}))

\* a faulty variant of insert_sorted_inputs: the merge is done in place, by
\* existing.extend(new_entries) and existing.sort(...)
insert_sorted_inputs_InPlace(existing, new_entries) ==
    [existing |-> insert_sorted(existing, new_entries),
     new_entries |-> new_entries]

\* the two argument lists as the call of insert_sorted leaves them: lines
\* 285-294 iterate over them and append their records to lists of their own
insert_sorted_inputs(existing, new_entries) ==
    [existing |-> existing, new_entries |-> new_entries]


(***************************************************************************)
(* The inputs of the model                                                 *)
(***************************************************************************)

\* the longest store and the longest source catalog at the start
MaxTarget == 2

MaxSource == 2

\* "http://a.io/v1"
UrlA1 == <<"h","t","t","p",":","/","/","a",".","i","o","/","v","1">>

\* "https://WWW.A.io/v1/": UrlA1 up to scheme, case, www. and trailing slash
UrlA1Variant ==
    <<"h","t","t","p","s",":","/","/","W","W","W",".","A",".","i","o","/","v","1","/">>

\* "http://a.io/v2"
UrlA2 == <<"h","t","t","p",":","/","/","a",".","i","o","/","v","2">>

\* "https://a.io/?k=1": the same host as UrlA1, another path
UrlARoot == <<"h","t","t","p","s",":","/","/","a",".","i","o","/","?","k","=","1">>

\* "https://github.com/bar" and "https://github.com/zed"
UrlGitBar ==
    <<"h","t","t","p","s",":","/","/","g","i","t","h","u","b",".","c","o","m","/","b","a","r">>

UrlGitZed ==
    <<"h","t","t","p","s",":","/","/","g","i","t","h","u","b",".","c","o","m","/","z","e","d">>

\* "http://[x": urlparse raises ValueError("Invalid IPv6 URL")
UrlBad == <<"h","t","t","p",":","/","/","[","x">>

\* The records the store may hold at the start: a broken "Foo", a working
\* "foo" of the same category and host, a pending "Bar" on a generic host,
\* and a record whose URL cannot be parsed.
TargetPool ==
    { [name |-> <<"F","o","o">>, url |-> UrlA1, description |-> "d1",
       auth |-> <<"n","o","n","e">>, https |-> TRUE, cors |-> <<"y","e","s">>,
       category |-> <<"t","o","o","l","s">>, status |-> "broken",
       notes |-> <<"4","0","4">>, date_checked |-> "2026-01-01",
       try_it |-> "probe"],
      [name |-> <<"f","o","o">>, url |-> UrlARoot, description |-> "d2",
       auth |-> <<"a","p","i","-","k","e","y">>, https |-> TRUE,
       cors |-> <<"n","o">>,
       category |-> <<"t","o","o","l","s">>, status |-> "working",
       notes |-> <<"o","k">>, date_checked |-> "2026-01-02",
       try_it |-> "probe"],
      [name |-> <<"B","a","r">>, url |-> UrlGitBar, description |-> "d3",
       auth |-> <<"n","o","n","e">>, https |-> TRUE,
       cors |-> <<"u","n","k","n","o","w","n">>,
       category |-> <<"d","e","v">>, status |-> "pending",
       notes |-> << >>, date_checked |-> None, try_it |-> None],
      [name |-> <<"B","a","d">>, url |-> UrlBad, description |-> "d4",
       auth |-> <<"n","o","n","e">>, https |-> FALSE, cors |-> <<"n","o">>,
       category |-> <<"d","e","v">>, status |-> "skipped",
       notes |-> << >>, date_checked |-> "2026-01-03", try_it |-> None] }

\* The entries the source catalog may hold: a variant spelling of the broken
\* record's name and URL, a new URL for "Foo", another name for the broken
\* record's URL, "bar" in another category with an empty URL, an entry on a
\* generic host, and an entry whose URL cannot be parsed.
SourcePool ==
    { [API |-> <<"F","O","O">>, Link |-> UrlA1Variant, Description |-> "s1",
       Auth |-> <<"a","p","i","K","e","y">>, HTTPS |-> TRUE,
       Cors |-> <<"Y","e","s">>, Category |-> <<"T","o","o","l","s">>],
      [API |-> <<"F","o","o">>, Link |-> UrlA2, Description |-> "s2",
       Auth |-> << >>, HTTPS |-> TRUE,
       Cors |-> <<"y","e","s">>, Category |-> <<"T","o","o","l","s">>],
      [API |-> <<"B","a","z">>, Link |-> UrlA1, Description |-> "s3",
       Auth |-> <<"O","A","u","t","h">>, HTTPS |-> FALSE,
       Cors |-> <<"n","o">>, Category |-> <<"D","e","v">>],
      [API |-> <<"b","a","r">>, Link |-> << >>, Description |-> "s4",
       Auth |-> <<"y","e","s">>, HTTPS |-> FALSE,
       Cors |-> <<"U","n","k","n","o","w","n">>,
       Category |-> <<"T","o","o","l","s">>],
      [API |-> <<"Z","e","d">>, Link |-> UrlGitZed, Description |-> "s5",
       Auth |-> <<" ">>, HTTPS |-> TRUE,
       Cors |-> <<"n","o">>,
       Category |-> <<"S","c","i","e","n","c","e"," ","&"," ","M","a","t","h">>],
      [API |-> <<"F","o","o">>, Link |-> UrlBad, Description |-> "s6",
       Auth |-> <<"u","s","e","r","-","a","g","e","n","t">>, HTTPS |-> FALSE,
       Cors |-> <<"n","o">>, Category |-> <<"T","o","o","l","s">>] }

SeqsUpTo(S, n) == UNION {[1..k -> S] : k \in 0..n}

(***************************************************************************)
(* main()                                                                  *)
(***************************************************************************)

VARIABLES
    files,          \* what main() finds on disk: "ok", "no_target" (no
                    \* data/apis.json), "no_source" (no source catalog) or
                    \* "no_entries" (a source document without "entries")
    target_file,    \* data/apis.json on disk: the store
    source_file,    \* the "entries" of the source catalog on disk
    report_dir,     \* the files of data/merge-report, "absent" or their content
    pc,             \* where main() is: idle, lookup, classify, finish, done
    apply,          \* args.apply
    target,         \* the loaded store, mutated in place by the auto-update
    source,         \* the loaded source entries
    tested_before,  \* line 441
    lookup,         \* the index built over target
    results,        \* the MergeResults of the pass
    idx,            \* the position of the for loop in source
    merged,         \* insert_sorted's result in an --apply run
    tested_after,   \* line 477
    exit_code,      \* the exit status of the last run, "none" before it ends
    written,        \* history: this run has written the store
    prev,           \* history: whether the run before this one wrote the
                    \* store, and the records it inserted
    arg,            \* the argument of a call of a transformation function
    ret,            \* the function called and what it returned
    session_file,   \* the session document batch-update.py is given
    batch           \* batch-update.py's main(): where it is, --dry-run, the
                    \* loaded updates and apis, its loop index, its counts
                    \* and its exit status

\* the state of a call of a transformation function on its own
normvars == <<arg, ret>>

\* the state of batch-update.py
batchvars == <<session_file, batch>>

\* pc comes first: a step that writes a report file or sets an exit status
\* moves pc
vars ==
    <<pc, files, target_file, source_file, report_dir, apply, target, source,
      tested_before, lookup, results, idx, merged, tested_after, exit_code,
      written, prev, normvars, batchvars>>

\* no transformation function has been called
NoCall == [fn |-> "none", value |-> << >>]

\* batch-update.py has not been started
BatchIdle ==
    [pc |-> "idle", dry_run |-> FALSE, updates |-> << >>, apis |-> << >>,
     i |-> 1, success |-> 0, failed |-> 0, wrote |-> FALSE,
     exit_code |-> "none"]

NoSession == [kind |-> "missing", updates |-> << >>]

NoReports ==
    [new_apis |-> "absent", url_updates |-> "absent",
     flagged_review |-> "absent", merge_report |-> "absent"]

Init ==
    /\ files = "ok"
    /\ target_file \in SeqsUpTo(TargetPool, MaxTarget)
    /\ source_file \in SeqsUpTo(SourcePool, MaxSource)
    /\ report_dir = NoReports
    /\ pc = "idle"
    /\ apply = FALSE
    /\ target = << >>
    /\ source = << >>
    /\ tested_before = 0
    /\ lookup = EmptyLookup
    /\ results = MergeResults
    /\ idx = 1
    /\ merged = << >>
    /\ tested_after = 0
    /\ exit_code = "none"
    /\ written = FALSE
    /\ prev = [wrote |-> FALSE, inserted |-> << >>]
    /\ arg = << >>
    /\ ret = NoCall
    /\ session_file = NoSession
    /\ batch = BatchIdle

\* sum(1 for a in records if a["status"] != "pending")
Tested(records) == Cardinality({i \in DOMAIN records : records[i].status # "pending"})

\* an uncaught exception ends the process with status 1
Crash ==
    /\ pc' = "done"
    /\ exit_code' = 1

\* lines 412-448: a new invocation parses its flags, ends with status 1 if
\* a file is missing (lines 424-430), loads both files and ends with a KeyError
\* if the source document has no "entries" (line 438)
Start ==
    /\ pc \in {"idle", "done"}
    /\ \E a \in BOOLEAN : apply' = a
    /\ IF files \in {"no_target", "no_source"}
       THEN /\ pc' = "done"
            /\ exit_code' = 1
            /\ target' = << >>
            /\ source' = << >>
            /\ tested_before' = 0
       ELSE IF files = "no_entries"
       THEN /\ Crash
            /\ target' = target_file
            /\ source' = << >>
            /\ tested_before' = 0
       ELSE /\ target' = target_file
            /\ source' = source_file
            /\ tested_before' = Tested(target_file)
            /\ exit_code' = "none"
            /\ pc' = "lookup"
    /\ lookup' = EmptyLookup
    /\ results' = MergeResults
    /\ idx' = 1
    /\ merged' = << >>
    /\ tested_after' = 0
    /\ written' = FALSE
    /\ prev' = [wrote |-> written,
                inserted |-> IF written THEN results.new_apis ELSE << >>]
    /\ UNCHANGED <<files, target_file, source_file, report_dir, normvars, batchvars>>

\* line 451: lookup = build_lookup(target); normalize_url raises on a URL
\* urlparse rejects
BuildLookup ==
    /\ pc = "lookup"
    /\ IF \E i \in DOMAIN target : UrlRaises(target[i].url)
       THEN /\ Crash
            /\ UNCHANGED lookup
       ELSE /\ lookup' = build_lookup(target)
            /\ pc' = "classify"
            /\ UNCHANGED exit_code
    /\ UNCHANGED <<files, target_file, source_file, report_dir, apply, target,
                   source, tested_before, results, idx, merged, tested_after,
                   written, prev, normvars, batchvars>>

\* the keys transform_entry reads
SourceKeys ==
    {"API", "Link", "Description", "Auth", "HTTPS", "Cors", "Category"}

\* a faulty variant of Classify: an entry transform_entry cannot read is
\* skipped and the loop goes on
Classify_SkipsUnreadable ==
    /\ pc = "classify"
    /\ idx <= Len(source)
    /\ IF ~(SourceKeys \subseteq DOMAIN source[idx])
       THEN /\ idx' = idx + 1
            /\ UNCHANGED <<target, results, pc, exit_code>>
       ELSE IF UrlRaises(source[idx].Link)
       THEN /\ Crash
            /\ UNCHANGED <<target, results, idx>>
       ELSE LET r == ClassifyOne(source[idx], target, lookup, results)
            IN  /\ target' = r.target
                /\ results' = r.results
                /\ idx' = idx + 1
                /\ UNCHANGED <<pc, exit_code>>
    /\ UNCHANGED <<files, target_file, source_file, report_dir, apply, source,
                   tested_before, lookup, merged, tested_after, written, prev,
                   normvars, batchvars>>

\* a faulty variant of Classify: an entry equal to a record already queued
\* as new is a duplicate
Classify_MatchesQueued ==
    /\ pc = "classify"
    /\ idx <= Len(source)
    /\ IF \/ ~(SourceKeys \subseteq DOMAIN source[idx])
          \/ UrlRaises(source[idx].Link)
       THEN /\ Crash
            /\ UNCHANGED <<target, results, idx>>
       ELSE LET t == transform_entry(source[idx])
                r == IF t \in Range(results.new_apis)
                     THEN [target  |-> target,
                           results |-> [results EXCEPT
                                          !.duplicates = Append(@, t)]]
                     ELSE ClassifyOne(source[idx], target, lookup, results)
            IN  /\ target' = r.target
                /\ results' = r.results
                /\ idx' = idx + 1
                /\ UNCHANGED <<pc, exit_code>>
    /\ UNCHANGED <<files, target_file, source_file, report_dir, apply, source,
                   tested_before, lookup, merged, tested_after, written, prev,
                   normvars, batchvars>>

\* a faulty variant of Classify: the index is rebuilt from the target after
\* the iteration
Classify_Reindexes ==
    /\ pc = "classify"
    /\ idx <= Len(source)
    /\ IF \/ ~(SourceKeys \subseteq DOMAIN source[idx])
          \/ UrlRaises(source[idx].Link)
       THEN /\ Crash
            /\ UNCHANGED <<target, results, idx, lookup>>
       ELSE LET r == ClassifyOne(source[idx], target, lookup, results)
            IN  /\ target' = r.target
                /\ results' = r.results
                /\ lookup' = build_lookup(r.target)
                /\ idx' = idx + 1
                /\ UNCHANGED <<pc, exit_code>>
    /\ UNCHANGED <<files, target_file, source_file, report_dir, apply, source,
                   tested_before, merged, tested_after, written, prev,
                   normvars, batchvars>>

\* lines 176-273: one iteration of the loop of classify_and_merge;
\* transform_entry (line 177) raises KeyError on an entry without one of
\* its keys
Classify ==
    /\ pc = "classify"
    /\ idx <= Len(source)
    /\ IF \/ ~(SourceKeys \subseteq DOMAIN source[idx])
          \/ UrlRaises(source[idx].Link)
       THEN /\ Crash
            /\ UNCHANGED <<target, results, idx>>
       ELSE LET r == ClassifyOne(source[idx], target, lookup, results)
            IN  /\ target' = r.target
                /\ results' = r.results
                /\ idx' = idx + 1
                /\ UNCHANGED <<pc, exit_code>>
    /\ UNCHANGED <<files, target_file, source_file, report_dir, apply, source,
                   tested_before, lookup, merged, tested_after, written, prev,
                   normvars, batchvars>>

\* lines 358-399: new-apis.json and merge-report.txt are always written,
\* url-updates.json and flagged-review.json only when they have entries
write_reports(res, dir) ==
    [new_apis       |-> res.new_apis,
     url_updates    |-> IF res.url_updates \o res.url_updates_applied # << >>
                        THEN res.url_updates \o res.url_updates_applied
                        ELSE dir.url_updates,
     flagged_review |-> IF res.cross_category \o res.domain_matches # << >>
                        THEN res.cross_category \o res.domain_matches
                        ELSE dir.flagged_review,
     merge_report   |-> <<Len(res.new_apis), Len(res.url_updates_applied),
                          Len(res.url_updates), Len(res.cross_category),
                          Len(res.domain_matches), Len(res.duplicates),
                          Len(res.renamed)>>]

\* line 468
NothingToMerge(res) == res.new_apis = << >> /\ res.url_updates_applied = << >>

\* line 479: the safety check that aborts the write
SafetyAbort(after, before, applied) == after < before - applied

\* a faulty variant of ApplyOrPreview: the preview writes the store too
ApplyOrPreview_PreviewWrites(apply_flag, tgt, res, before, file, dir) ==
    IF NothingToMerge(res)
    THEN [target_file |-> file, report_dir |-> dir, exit_code |-> 0,
          merged |-> << >>, tested_after |-> 0, written |-> FALSE]
    ELSE LET m     == insert_sorted(tgt, res.new_apis)
             after == Tested(m)
         IN  IF SafetyAbort(after, before, Len(res.url_updates_applied))
             THEN [target_file |-> file, report_dir |-> dir, exit_code |-> 1,
                   merged |-> m, tested_after |-> after, written |-> FALSE]
             ELSE [target_file |-> m, report_dir |-> write_reports(res, dir),
                   exit_code |-> 0, merged |-> m, tested_after |-> after,
                   written |-> TRUE]

\* a faulty variant of ApplyOrPreview: an --apply run that writes the store
\* reports no new records
ApplyOrPreview_ApplyReportsNothingNew(apply_flag, tgt, res, before, file, dir) ==
    IF NothingToMerge(res)
    THEN [target_file |-> file, report_dir |-> dir, exit_code |-> 0,
          merged |-> << >>, tested_after |-> 0, written |-> FALSE]
    ELSE IF apply_flag
    THEN LET m     == insert_sorted(tgt, res.new_apis)
             after == Tested(m)
         IN  IF SafetyAbort(after, before, Len(res.url_updates_applied))
             THEN [target_file |-> file, report_dir |-> dir, exit_code |-> 1,
                   merged |-> m, tested_after |-> after, written |-> FALSE]
             ELSE [target_file |-> m,
                   report_dir |->
                       write_reports([res EXCEPT !.new_apis = << >>], dir),
                   exit_code |-> 0, merged |-> m, tested_after |-> after,
                   written |-> TRUE]
    ELSE [target_file |-> file, report_dir |-> write_reports(res, dir),
          exit_code |-> 0, merged |-> << >>, tested_after |-> 0,
          written |-> FALSE]

\* lines 468-499: what main() does after the loop, given the flag, the
\* in-memory target, the results, tested_before and the files on disk
ApplyOrPreview(apply_flag, tgt, res, before, file, dir) ==
    IF NothingToMerge(res)
    THEN [target_file |-> file, report_dir |-> dir, exit_code |-> 0,
          merged |-> << >>, tested_after |-> 0, written |-> FALSE]
    ELSE IF apply_flag
    THEN LET m     == insert_sorted(tgt, res.new_apis)
             after == Tested(m)
         IN  IF SafetyAbort(after, before, Len(res.url_updates_applied))
             THEN [target_file |-> file, report_dir |-> dir, exit_code |-> 1,
                   merged |-> m, tested_after |-> after, written |-> FALSE]
             ELSE [target_file |-> m, report_dir |-> write_reports(res, dir),
                   exit_code |-> 0, merged |-> m, tested_after |-> after,
                   written |-> TRUE]
    ELSE [target_file |-> file, report_dir |-> write_reports(res, dir),
          exit_code |-> 0, merged |-> << >>, tested_after |-> 0,
          written |-> FALSE]

\* lines 454-499: main() after the loop
Finish ==
    /\ pc = "classify"
    /\ idx > Len(source)
    /\ pc' = "done"
    /\ LET out == ApplyOrPreview(apply, target, results, tested_before,
                                 target_file, report_dir)
       IN  /\ target_file' = out.target_file
           /\ report_dir' = out.report_dir
           /\ exit_code' = out.exit_code
           /\ merged' = out.merged
           /\ tested_after' = out.tested_after
           /\ written' = out.written
    /\ LET args == IF apply /\ ~NothingToMerge(results)
                   THEN insert_sorted_inputs(target, results.new_apis)
                   ELSE [existing |-> target, new_entries |-> results.new_apis]
       IN  /\ target' = args.existing
           /\ results' = [results EXCEPT !.new_apis = args.new_entries]
    /\ UNCHANGED <<files, source_file, apply, source, tested_before, lookup,
                   idx, prev, normvars, batchvars>>

Next == Start \/ BuildLookup \/ Classify \/ Finish

Spec == Init /\ [][Next]_vars


(***************************************************************************)
(* Runs of main() on damaged input                                         *)
(***************************************************************************)

FileStates == {"ok", "no_target", "no_source", "no_entries"}

\* the entry without one of its keys
Without(entry, key) == [k \in DOMAIN entry \ {key} |-> entry[k]]

\* the store holds the broken "Foo" and the pending "Bar"
DamagedRunTargets == {t \in TargetPool : t.status \in {"broken", "pending"}}

\* the new URL for "Foo", which repairs the broken record, the same entry
\* without one of its keys, and "Baz"
DamagedRunSources ==
    LET repair == CHOOSE e \in SourcePool : e.Description = "s2"
    IN  {repair} \cup {e \in SourcePool : e.Description = "s3"}
            \cup {Without(repair, k) : k \in SourceKeys}

\* as Init, over stores and sources that may be missing or damaged
DamagedInit ==
    /\ files \in FileStates
    /\ target_file \in SeqsUpTo(DamagedRunTargets, MaxTarget)
    /\ source_file \in SeqsUpTo(DamagedRunSources, MaxSource)
    /\ files = "ok" \/ source_file = << >>
    /\ report_dir = NoReports
    /\ pc = "idle"
    /\ apply = FALSE
    /\ target = << >>
    /\ source = << >>
    /\ tested_before = 0
    /\ lookup = EmptyLookup
    /\ results = MergeResults
    /\ idx = 1
    /\ merged = << >>
    /\ tested_after = 0
    /\ exit_code = "none"
    /\ written = FALSE
    /\ prev = [wrote |-> FALSE, inserted |-> << >>]
    /\ arg = << >>
    /\ ret = NoCall
    /\ session_file = NoSession
    /\ batch = BatchIdle

DamagedSpec == DamagedInit /\ [][Next]_vars

(***************************************************************************)
(* The transformation functions called on their own                        *)
(***************************************************************************)

\* the longest text built from TextAlphabet
MaxText == 3

TextAlphabet == {"a", "B", "1", "&", "-", " "}

ShortTexts == UNION {[1..k -> TextAlphabet] : k \in 0..MaxText}

\* the keys of the auth table as the source catalog spells them, values the
\* store already uses, and other words
AuthWords ==
    { <<>>,
      <<"a","p","i","k","e","y">>,
      <<"o","a","u","t","h">>,
      <<"x","-","m","a","s","h","a","p","e","-","k","e","y">>,
      <<"u","s","e","r","-","a","g","e","n","t">>,
      <<"y","e","s">>,
      <<"a","p","i","K","e","y">>,
      <<"O","A","u","t","h">>,
      <<"X","-","M","a","s","h","a","p","e","-","K","e","y">>,
      <<"U","s","e","r","-","A","g","e","n","t">>,
      <<"Y","E","S">>,
      <<"n","o","n","e">>,
      <<"a","p","i","-","k","e","y">>,
      <<"N","o">>,
      <<"n","u","l","l">> }

Padded(w) ==
    {w, <<" ">> \o w, w \o <<" ">>, <<" ">> \o w \o <<" ", " ">>}

\* category names
CategoryNames ==
    { <<"S","c","i","e","n","c","e"," ","&"," ","M","a","t","h">>,
      <<" "," ","O","d","d","!","!","C","h","a","r","s","_","_","h","e","r","e">>,
      <<"F","o","o","d"," ","&"," ","D","r","i","n","k">>,
      <<"O","p","e","n","-","D","a","t","a">>,
      <<"R","&","D">>,
      <<"a","-","-","b">>,
      <<"-","-">>,
      <<"&"," ","&">> }

Texts == ShortTexts \cup UNION {Padded(w) : w \in AuthWords} \cup CategoryNames

\* A URL is spelled from a scheme (none for a string without "//"), a
\* spelling of a host, a path, and what normalize_url is meant to ignore: a
\* trailing slash, a query string and surrounding whitespace.
Schemes == {<< >>, <<"h","t","t","p",":","/","/">>, <<"h","t","t","p","s",":","/","/">>}

HostSpellings ==
    { [spelled |-> <<"a",".","i","o">>, host |-> <<"a",".","i","o">>],
      [spelled |-> <<"A",".","i","o">>, host |-> <<"a",".","i","o">>],
      [spelled |-> <<"w","w","w",".","a",".","i","o">>, host |-> <<"a",".","i","o">>],
      [spelled |-> <<"W","W","W",".","A",".","i","o">>, host |-> <<"a",".","i","o">>],
      [spelled |-> <<"b",".","i","o">>, host |-> <<"b",".","i","o">>] }

Paths == {<< >>, <<"/","v","1">>, <<"/","v","2">>}

UrlForms ==
    [scheme : Schemes, host : HostSpellings, path : Paths,
     slash : {<< >>, <<"/">>}, query : {<< >>, <<"?","k","=","1">>},
     space : {<< >>, <<" ">>}]

\* the forms with nothing to ignore
PlainUrlForms ==
    {f \in UrlForms :
        /\ f.scheme # <<"h","t","t","p","s",":","/","/">>
        /\ f.host.spelled = f.host.host
        /\ f.slash = << >> /\ f.query = << >> /\ f.space = << >>}

UrlOf(f) ==
    f.space \o f.scheme \o f.host.spelled \o f.path \o f.slash \o f.query
        \o f.space

mainvars ==
    <<files, target_file, source_file, report_dir, pc, apply, target, source,
      tested_before, lookup, results, idx, merged, tested_after, exit_code,
      written, prev>>

\* no script runs; one text, or two URLs (kept as their forms), are about
\* to be transformed
NormInit ==
    /\ files = "ok"
    /\ target_file = << >>
    /\ source_file = << >>
    /\ report_dir = NoReports
    /\ pc = "idle"
    /\ apply = FALSE
    /\ target = << >>
    /\ source = << >>
    /\ tested_before = 0
    /\ lookup = EmptyLookup
    /\ results = MergeResults
    /\ idx = 1
    /\ merged = << >>
    /\ tested_after = 0
    /\ exit_code = "none"
    /\ written = FALSE
    /\ prev = [wrote |-> FALSE, inserted |-> << >>]
    /\ arg \in {<<t>> : t \in Texts}
                \cup (UrlForms \X PlainUrlForms)
    /\ ret = NoCall
    /\ session_file = NoSession
    /\ batch = BatchIdle

\* line 104: normalize_auth(src["Auth"])
CallNormalizeAuth ==
    /\ ret = NoCall
    /\ Len(arg) = 1
    /\ ret' = [fn |-> "normalize_auth", value |-> <<normalize_auth(arg[1])>>]
    /\ UNCHANGED <<mainvars, arg, batchvars>>

\* line 106: slugify(src["Category"])
CallSlugify ==
    /\ ret = NoCall
    /\ Len(arg) = 1
    /\ ret' = [fn |-> "slugify", value |-> <<slugify(arg[1])>>]
    /\ UNCHANGED <<mainvars, arg, batchvars>>

\* lines 132 and 179: the normalized URLs of a target record and of a
\* source entry, which the lookup compares
CallNormalizeUrl ==
    /\ ret = NoCall
    /\ Len(arg) = 2
    /\ ret' = [fn |-> "normalize_url",
               value |-> <<normalize_url(UrlOf(arg[1])),
                           normalize_url(UrlOf(arg[2]))>>]
    /\ UNCHANGED <<mainvars, arg, batchvars>>

NormNext == CallNormalizeAuth \/ CallSlugify \/ CallNormalizeUrl

NormSpec == NormInit /\ [][NormNext]_vars


(***************************************************************************)
(* Properties of the classification pass                                   *)
(***************************************************************************)

\* the keys classify_and_merge derives from a source entry
KeysOf(src) ==
    [name   |-> lower(src.API),
     url    |-> normalize_url(src.Link),
     cat    |-> slugify(src.Category),
     domain |-> get_domain(src.Link)]

\* the condition of tier t for the lookup keys k of a source entry, read
\* against the index
TierCondOfKeys(t, k, lk) ==
    CASE t = 1 -> k.name \in DOMAIN lk.by_name /\ k.url \in DOMAIN lk.by_url
      [] t = 2 -> k.url \in DOMAIN lk.by_url
      [] t = 3 -> <<k.name, k.cat>> \in DOMAIN lk.by_name_cat
      [] t = 4 -> k.name \in DOMAIN lk.by_name
      [] t = 5 -> /\ k.domain # << >>
                  /\ k.domain \notin GENERIC_DOMAINS
                  /\ k.domain \in DOMAIN lk.by_domain
      [] OTHER -> TRUE

\* the condition of tier t for a source entry, read against the index
TierCond(t, src, lk) == TierCondOfKeys(t, KeysOf(src), lk)

Tiers == 1..6

EarliestTier(src, lk) ==
    LET k == KeysOf(src)
    IN  CHOOSE t \in Tiers :
            /\ TierCondOfKeys(t, k, lk)
            /\ \A u \in 1..(t - 1) : ~TierCondOfKeys(u, k, lk)

Kinds ==
    {"duplicates", "renamed", "url_updates", "url_updates_applied",
     "cross_category", "domain_matches", "new_apis"}

\* a step of the loop that classifies source[idx]
ClassifyStep == pc = "classify" /\ idx' = idx + 1

\* in this step exactly the lists of S got one more entry each
OnlyGrew(S) ==
    \A k \in Kinds :
        IF k \in S
        THEN /\ Len(results'[k]) = Len(results[k]) + 1
             /\ UpTo(results'[k], Len(results[k])) = results[k]
        ELSE results'[k] = results[k]

Last(q) == q[Len(q)]

InPass == pc = "classify" \/ (pc = "done" /\ lookup # EmptyLookup)

\* C1: every classified source record gets the outcome of the earliest tier
\* whose condition holds against the index, and nothing of a later tier: the
\* other result lists stay as they are, and the target changes in tier 3 only.
C1_EarliestTierWins ==
    [][ClassifyStep =>
        LET t == EarliestTier(source[idx], lookup)
        IN  /\ t = 1 => /\ OnlyGrew({"duplicates"})
                        /\ Last(results'.duplicates) = transform_entry(source[idx])
                        /\ target' = target
            /\ t = 2 => OnlyGrew({"renamed"}) /\ target' = target
            /\ t = 3 => OnlyGrew({"url_updates"}) \/ OnlyGrew({"url_updates_applied"})
            /\ t = 4 => OnlyGrew({"cross_category"}) /\ target' = target
            /\ t = 5 => OnlyGrew({"domain_matches", "new_apis"}) /\ target' = target
            /\ t = 6 => OnlyGrew({"new_apis"}) /\ target' = target
    ]_vars

\* a record that meets the conditions of tier 1 and of tier 3, whose
\* (name, category) match is broken, has been classified: it is a duplicate
\* and nothing was updated
C1_Witness ==
    /\ pc = "classify"
    /\ \E k \in 1..(idx - 1) :
          /\ TierCond(1, source[k], lookup)
          /\ TierCond(3, source[k], lookup)
          /\ LET key == <<KeysOf(source[k]).name, KeysOf(source[k]).cat>>
             IN  target[lookup.by_name_cat[key][1]].status = "broken"
          /\ \E n \in DOMAIN results.duplicates :
                results.duplicates[n] = transform_entry(source[k])
    /\ results.url_updates_applied = << >>
    /\ results.url_updates = << >>
    /\ target = target_file

\* the source records recorded so far, a domain match counting once (it is
\* in new_apis too)
Recorded ==
    Len(results.duplicates) + Len(results.renamed) + Len(results.url_updates)
        + Len(results.url_updates_applied) + Len(results.cross_category)
        + Len(results.new_apis)

\* C2: a classification pass records every source record under one outcome,
\* none is dropped, whatever its URL: once the index is built and main() has
\* ended, the outcomes are as many as the source records.
C2_EveryRecordRecorded ==
    (pc = "done" /\ \A i \in DOMAIN target : ~UrlRaises(target[i].url))
        => /\ Recorded = Len(source)
           /\ Len(results.domain_matches) <= Len(results.new_apis)

\* the first target record with this lowercase name and this category
FirstNameCat(name, cat) ==
    CHOOSE j \in DOMAIN target :
        /\ lower(target[j].name) = name /\ target[j].category = cat
        /\ \A i \in 1..(j - 1) :
              ~(lower(target[i].name) = name /\ target[i].category = cat)

\* C3: when a source record reaches tier 3 (its name and category are in the
\* index, its normalized URL is not) and the first target record of that name
\* and category is broken, that record gets the source URL, status pending,
\* date-checked and try-it null and notes that end with its previous notes
\* after a prefix, and the outcome is url-update-applied with the URL from
\* before the update as current-url.
C3_AutoUpdate ==
    [][ClassifyStep =>
        LET src == source[idx]
            k   == KeysOf(src)
            j   == FirstNameCat(k.name, k.cat)
            old == target[j]
            new == target'[j]
        IN  (/\ TierCond(3, src, lookup)
             /\ ~TierCond(2, src, lookup)
             /\ old.status = "broken")
            => /\ new.url = src.Link
               /\ new.status = "pending"
               /\ new.date_checked = None
               /\ new.try_it = None
               /\ Len(new.notes) > Len(old.notes)
               /\ From(new.notes, Len(new.notes) - Len(old.notes)) = old.notes
               /\ OnlyGrew({"url_updates_applied"})
               /\ Last(results'.url_updates_applied).current_url = old.url
               /\ Last(results'.url_updates_applied).source_url = src.Link
               /\ Last(results'.url_updates_applied).name = src.API
               /\ Last(results'.url_updates_applied).action = "auto-updated"
    ]_vars

\* the broken "Foo" with notes "404" has been repaired
C3_Witness ==
    /\ InPass
    /\ Len(results.url_updates_applied) = 1
    /\ results.url_updates_applied[1].current_url = UrlA1
    /\ \E j \in DOMAIN target :
          /\ target[j].url = UrlA2
          /\ target[j].status = "pending"
          /\ target[j].notes = Provenance \o <<"4","0","4">>
          /\ target_file[j].status = "broken"

\* the fields an auto-update leaves alone
KeptFields == {"name", "category", "description", "auth", "https", "cors"}

\* C4: during a pass a target record changes only in the step that matches
\* it at tier 3 as the first record of its (name, category) while its status
\* is broken, and then only in url, status, notes, date-checked and try-it;
\* every other record, and every record matched while not broken or by
\* another tier, keeps all its fields.
C4_OnlyBrokenIsTouched ==
    [][(pc = "lookup" \/ pc = "classify") =>
        /\ Len(target') = Len(target)
        /\ \A i \in DOMAIN target :
              target'[i] # target[i] =>
                 /\ ClassifyStep
                 /\ EarliestTier(source[idx], lookup) = 3
                 /\ i = FirstNameCat(KeysOf(source[idx]).name, KeysOf(source[idx]).cat)
                 /\ target[i].status = "broken"
                 /\ \A f \in KeptFields : target'[i][f] = target[i][f]
    ]_vars

\* a working record was matched at tier 3 and only flagged, and a broken
\* record of the store was left alone: the store in memory is the store on
\* disk
C4_Witness ==
    /\ pc = "classify"
    /\ idx > Len(source)
    /\ Len(results.url_updates) = 1
    /\ results.url_updates[1].current_status = "working"
    /\ results.url_updates[1].action = "flagged"
    /\ \E i \in DOMAIN target : target[i].status = "broken"
    /\ target = target_file

\* C5: the merged result of a run holds at least as many records with
\* status # pending as the target held before the run, less the auto-applied
\* URL updates.
C5_TestedNotLost ==
    InPass =>
        /\ Tested(insert_sorted(target, results.new_apis))
              + Len(results.url_updates_applied) >= tested_before
        /\ written =>
              Tested(target_file) + Len(results.url_updates_applied) >= tested_before

\* a run that repaired a record and inserted a record has written a store
\* that still holds a tested record
C5_Witness ==
    /\ pc = "done"
    /\ written
    /\ results.url_updates_applied # << >>
    /\ results.new_apis # << >>
    /\ tested_before = 2
    /\ Tested(target_file) = 1


(***************************************************************************)
(* Properties of the write path                                            *)
(***************************************************************************)

\* the step of main() after the loop
FinishStep == pc = "classify" /\ idx > Len(source) /\ pc' = "done"

\* C6: in --apply mode the store is written only if the merged result holds
\* exactly (tested before) - (auto-updates applied) records with
\* status # pending; with any other count the run ends with a non-zero exit
\* and the store and the report files are as they were.
C6_WriteOnlyIfCountMatches ==
    [][(FinishStep /\ apply) =>
        /\ target_file' # target_file =>
              /\ Tested(target_file') + Len(results.url_updates_applied)
                    = tested_before
              /\ target_file' = insert_sorted(target, results.new_apis)
        /\ (/\ ~NothingToMerge(results)
            /\ Tested(insert_sorted(target, results.new_apis))
                  + Len(results.url_updates_applied) # tested_before)
              => /\ exit_code' # 0
                 /\ target_file' = target_file
                 /\ report_dir' = report_dir
    ]_vars

\* an --apply run that repaired a broken record has written the store
C6_Witness ==
    /\ pc = "done"
    /\ apply
    /\ written
    /\ exit_code = 0
    /\ target_file = merged
    /\ Len(results.url_updates_applied) = 1
    /\ tested_before = 2
    /\ tested_after = 1

\* C7: a run without --apply never writes the store: the store changes only
\* in a step of an --apply run.
C7_DryRunNeverWrites ==
    [][target_file' # target_file => (apply /\ FinishStep)]_vars

\* a dry run that repaired a broken record in memory and found a new record
\* has ended: the reports are written and the store still holds the broken
\* record
C7_Witness ==
    /\ pc = "done"
    /\ ~apply
    /\ exit_code = 0
    /\ results.url_updates_applied # << >>
    /\ results.new_apis # << >>
    /\ report_dir.new_apis = results.new_apis
    /\ \E i \in DOMAIN target :
          target[i].status = "pending" /\ target_file[i].status = "broken"

\* C8 as amended: in the run after an applied run, with the same source,
\* every record the applied run inserted is classified duplicate and none of
\* them new.
C8_InsertedAreDuplicates ==
    (InPass /\ prev.wrote) =>
        /\ \A k \in 1..(idx - 1) :
              LET r == transform_entry(source[k])
              IN  r \in Range(prev.inserted) =>
                     /\ r \in Range(results.duplicates)
                     /\ r \notin Range(results.new_apis)
        /\ pc = "done" =>
              /\ exit_code = 0
              /\ \A r \in Range(prev.inserted) :
                    r \in Range(results.duplicates) /\ r \notin Range(results.new_apis)

\* the run after an applied run that inserted two records has ended, with
\* both among its duplicates
C8_Witness ==
    /\ pc = "done"
    /\ prev.wrote
    /\ Len(prev.inserted) = 2
    /\ Len(results.duplicates) = 2
    /\ \A n \in DOMAIN prev.inserted : prev.inserted[n] \in Range(results.duplicates)

\* C8 as stated: the run after an applied run inserts nothing.
C8_SecondRunInsertsNothing ==
    (InPass /\ prev.wrote) => results.new_apis = << >>

CanonicalKeys ==
    {"name", "url", "description", "auth", "https", "cors", "category",
     "status", "notes", "date_checked", "try_it"}

\* C9: every record queued for insertion has the canonical fields, status
\* pending, empty notes, date-checked and try-it null, and the name, url and
\* description of its source entry as they are; the queue follows the source
\* order.
C9_QueuedRecordsArePending ==
    InPass =>
        \E pos \in [DOMAIN results.new_apis -> 1..(idx - 1)] :
            /\ \A m, n \in DOMAIN pos : m < n => pos[m] < pos[n]
            /\ \A n \in DOMAIN pos :
                  LET r   == results.new_apis[n]
                      src == source[pos[n]]
                  IN  /\ DOMAIN r = CanonicalKeys
                      /\ r.status = "pending"
                      /\ r.notes = << >>
                      /\ r.date_checked = None
                      /\ r.try_it = None
                      /\ r.name = src.API
                      /\ r.url = src.Link
                      /\ r.description = src.Description

\* an entry with an upper-case name, a blank Auth and a category to slugify
\* is queued as the pending record "Zed"
C9_Witness ==
    /\ InPass
    /\ \E n \in DOMAIN results.new_apis :
          /\ results.new_apis[n].name = <<"Z","e","d">>
          /\ results.new_apis[n].auth = <<"n","o","n","e">>
          /\ results.new_apis[n].status = "pending"
          /\ \E k \in 1..(idx - 1) :
                /\ source[k].API = <<"Z","e","d">>
                /\ source[k].Auth = <<" ">>

\* the first record of the store, as loaded, with this domain
FirstOfDomain(d) ==
    CHOOSE i \in DOMAIN target_file :
        /\ get_domain(target_file[i].url) = d
        /\ \A j \in 1..(i - 1) : get_domain(target_file[j].url) # d

\* C10: a source record that meets no condition of tiers 1-4 and whose
\* domain, not empty and not denylisted, is the domain of a record of the
\* target (as loaded into the index) is reported as a domain match against
\* the first target record of that domain and is queued for insertion.
C10_DomainMatchIsInserted ==
    [][ClassifyStep =>
        LET src == source[idx]
            k   == KeysOf(src)
            d   == k.domain
        IN  (/\ \A t \in 1..4 : ~TierCondOfKeys(t, k, lookup)
             /\ d # << >>
             /\ d \notin GENERIC_DOMAINS
             /\ \E i \in DOMAIN target_file : get_domain(target_file[i].url) = d)
            => /\ OnlyGrew({"domain_matches", "new_apis"})
               /\ Last(results'.new_apis) = transform_entry(src)
               /\ Last(results'.domain_matches).source_name = src.API
               /\ Last(results'.domain_matches).source_url = src.Link
               /\ Last(results'.domain_matches).existing_name
                     = target_file[FirstOfDomain(d)].name
               /\ Last(results'.domain_matches).action = "added-as-new"
    ]_vars

\* "Baz" at a.io, whose name and URL are not in the store, has been reported
\* as a sibling of "foo" at a.io and queued
C10_Witness ==
    /\ InPass
    /\ Len(results.domain_matches) = 1
    /\ results.domain_matches[1].source_name = <<"B","a","z">>
    /\ results.domain_matches[1].existing_name = <<"f","o","o">>
    /\ Len(results.new_apis) = 1
    /\ results.new_apis[1].name = <<"B","a","z">>

(***************************************************************************)
(* Properties of insert_sorted                                             *)
(***************************************************************************)

\* the number of times r occurs in q
Count(q, r) == Cardinality({i \in DOMAIN q : q[i] = r})

IsPermutation(m, all) ==
    /\ Len(m) = Len(all)
    /\ \A r \in Range(all) \cup Range(m) : Count(m, r) = Count(all, r)

\* b may follow a: a later category, or the same category and a lowercase
\* name that is not smaller
MayFollow(a, b) ==
    \/ StrLess(a.category, b.category)
    \/ /\ a.category = b.category
       /\ ~StrLess(lower(b.name), lower(a.name))

IsOrdered(m) == \A i \in 1..(Len(m) - 1) : MayFollow(m[i], m[i + 1])

\* C11: insert_sorted(existing, new) is a permutation of existing followed
\* by new, of length |existing| + |new|, with the categories in ascending
\* order and, within a category, the lowercase names in non-decreasing order;
\* it is what an --apply run writes.  Checked where a run has ended, on the
\* records it holds in memory and the new records it found.
C11_SortedPermutation ==
    pc = "done" =>
        LET m == insert_sorted(target, results.new_apis)
        IN  /\ IsPermutation(m, target \o results.new_apis)
            /\ Len(m) = Len(target) + Len(results.new_apis)
            /\ IsOrdered(m)
            /\ written => merged = m /\ target_file = m

\* an --apply run wrote a store in which a new record precedes an existing
\* one and two records of one category with different lowercase names are
\* neighbours
C11_Witness ==
    /\ pc = "done" /\ written
    /\ \E i, j \in DOMAIN merged :
          /\ i < j
          /\ merged[i] \in Range(results.new_apis)
          /\ merged[j] \in Range(target)
    /\ \E i \in 1..(Len(merged) - 1) :
          /\ merged[i].category = merged[i + 1].category
          /\ StrLess(lower(merged[i].name), lower(merged[i + 1].name))

\* the sequences that hold the records of q, in any order
Reorderings(q) == {p \in [DOMAIN q -> Range(q)] : IsPermutation(p, q)}

CategoryNamePairs(m) == [i \in DOMAIN m |-> <<m[i].category, m[i].name>>]

\* C12: the merged order depends only on which records the inputs hold:
\* insert_sorted gives the same sequence of (category, name) pairs for every
\* order of the existing records and every order of the new ones.
C12_OrderDependsOnSetsOnly ==
    (pc = "done" /\ written) =>
        \A p \in Reorderings(target), q \in Reorderings(results.new_apis) :
            CategoryNamePairs(insert_sorted(p, q)) = CategoryNamePairs(merged)

AuthNone == <<"n","o","n","e">>

AuthApiKey == <<"a","p","i","-","k","e","y">>

\* the values of the auth enum
AuthEnum ==
    {AuthNone, AuthApiKey, <<"o","a","u","t","h">>,
     <<"x","-","m","a","s","h","a","p","e","-","k","e","y">>,
     <<"u","s","e","r","-","a","g","e","n","t">>}

\* the fixed table: trimmed lowercase input and the value it maps to
FixedAuthTable ==
    { << << >>, AuthNone >>,
      << <<"a","p","i","k","e","y">>, AuthApiKey >>,
      << <<"o","a","u","t","h">>, <<"o","a","u","t","h">> >>,
      << <<"x","-","m","a","s","h","a","p","e","-","k","e","y">>,
         <<"x","-","m","a","s","h","a","p","e","-","k","e","y">> >>,
      << <<"u","s","e","r","-","a","g","e","n","t">>,
         <<"u","s","e","r","-","a","g","e","n","t">> >> }

\* C14: normalize_auth returns a value of the enum for every input string;
\* it returns none only for an input that is empty after trimming, the
\* table's value for an input the table holds (in any case, with any
\* padding), and api-key for every other input.
C14_AuthTotalAndClosed ==
    ret.fn = "normalize_auth" =>
        LET raw == arg[1]
            key == lower(strip(raw, Whitespace))
            r   == ret.value[1]
        IN  /\ r \in AuthEnum
            /\ r = AuthNone => strip(raw, Whitespace) = << >>
            /\ \A p \in FixedAuthTable : key = p[1] => r = p[2]
            /\ key \notin {p[1] : p \in FixedAuthTable} => r = AuthApiKey

\* the already-normalized value "none", padded, has been mapped to api-key
C14_Witness ==
    /\ ret.fn = "normalize_auth"
    /\ Len(arg) = 1
    /\ arg[1] = <<" ">> \o AuthNone \o <<" ", " ">>
    /\ ret.value = <<AuthApiKey>>

\* The host of a URL form, lowercased and without a leading "www.", and its
\* path without a trailing slash.  A string without "//" has no host: all
\* of it is path.
KeyHost(f) == IF f.scheme # << >> THEN f.host.host ELSE << >>

KeyPath(f) == IF f.scheme # << >> THEN f.path ELSE f.host.spelled \o f.path

RECURSIVE AlnumRuns(_)
AlnumRuns(s) ==
    IF s = << >> THEN << >>
    ELSE IF ~IsSlugChar(Head(s)) THEN AlnumRuns(Tail(s))
    ELSE LET n == IF \E i \in DOMAIN s : ~IsSlugChar(s[i])
                  THEN (CHOOSE i \in DOMAIN s :
                           ~IsSlugChar(s[i]) /\ \A j \in 1..(i - 1) : IsSlugChar(s[j])) - 1
                  ELSE Len(s)
         IN  <<UpTo(s, n)>> \o AlnumRuns(From(s, n))

\* the runs with one hyphen between neighbours
RECURSIVE JoinWithHyphens(_)
JoinWithHyphens(runs) ==
    IF runs = << >> THEN << >>
    ELSE IF Len(runs) = 1 THEN runs[1]
    ELSE runs[1] \o <<"-">> \o JoinWithHyphens(Tail(runs))

\* C16: slugify returns lowercase letters, digits and hyphens only, with no
\* hyphen first or last and no two hyphens in a row: the runs of letters and
\* digits of the lowercased text without its "&", joined by single hyphens;
\* and slugify maps its result to itself.
C16_SlugShapeAndIdempotence ==
    ret.fn = "slugify" =>
        LET slug == ret.value[1]
        IN  /\ \A i \in DOMAIN slug : IsSlugChar(slug[i]) \/ slug[i] = "-"
            /\ slug # << >> => slug[1] # "-" /\ slug[Len(slug)] # "-"
            /\ \A i \in 1..(Len(slug) - 1) : ~(slug[i] = "-" /\ slug[i + 1] = "-")
            /\ slug = JoinWithHyphens(AlnumRuns(RemoveAmp(lower(arg[1]))))
            /\ slugify(slug) = slug

\* "Science & Math" has been turned into "science-math"
C16_Witness ==
    /\ ret.fn = "slugify"
    /\ Len(arg) = 1
    /\ arg[1] = <<"S","c","i","e","n","c","e"," ","&"," ","M","a","t","h">>
    /\ ret.value = <<<<"s","c","i","e","n","c","e","-","m","a","t","h">>>>

(***************************************************************************)
(* Properties of a run as a whole                                          *)
(***************************************************************************)

\* the in-memory target and the results after the entries i.. of src have
\* been classified in order
RECURSIVE ClassifyAll(_, _, _, _, _)
ClassifyAll(src, i, tgt, lk, res) ==
    IF i > Len(src) THEN [target |-> tgt, results |-> res]
    ELSE LET r == ClassifyOne(src[i], tgt, lk, res)
         IN  ClassifyAll(src, i + 1, r.target, lk, r.results)

\* the classification pass over the files on disk
PassOver(store, entries) ==
    ClassifyAll(entries, 1, store, build_lookup(store), MergeResults)

\* C17: the outcomes of a run and the report files it leaves are decided by
\* the store, the source and the report files on disk alone, never by
\* --apply: a dry run and an --apply run over the same files have the same
\* results and write the same reports.
C17_ReportsIgnoreApply ==
    [][FinishStep =>
          LET pass == PassOver(target_file, source_file)
          IN  /\ results = pass.results
              /\ report_dir' = IF NothingToMerge(pass.results)
                               THEN report_dir
                               ELSE write_reports(pass.results, report_dir)
    ]_vars

\* an --apply run with a new record and an applied URL update has written
\* the store and the reports of its results
C17_Witness ==
    /\ pc = "done" /\ apply /\ written
    /\ results.new_apis # << >> /\ results.url_updates_applied # << >>
    /\ report_dir.new_apis = results.new_apis
    /\ report_dir.url_updates = results.url_updates \o results.url_updates_applied
    /\ report_dir.merge_report[1] = Len(results.new_apis)

\* the post-merge safety check of an --apply run has failed
SafetyCheckFailed ==
    /\ merged # << >>
    /\ SafetyAbort(tested_after, tested_before, Len(results.url_updates_applied))

\* C18: a run ends with a non-zero exit status only when an input file is
\* missing or the post-merge safety check fails; in particular a run that
\* finds nothing to merge ends with status 0.
C18_NonZeroOnlyOnMissingFileOrSafety ==
    (pc = "done" /\ exit_code # 0) =>
        files \in {"no_target", "no_source"} \/ SafetyCheckFailed

\* the input of the run is damaged: a file is missing, the source document
\* has no "entries", or a source entry lacks one of its keys
InputError ==
    \/ files # "ok"
    \/ \E i \in DOMAIN source_file : ~(SourceKeys \subseteq DOMAIN source_file[i])

\* C19: with a damaged input no step of a run writes the store or a report
\* file, and the run ends with a non-zero exit status, wherever the damaged
\* entry is and whatever was auto-updated in memory before it.
C19_InputErrorWritesNothing ==
    [][InputError =>
          /\ target_file' = target_file
          /\ report_dir' = report_dir
          /\ pc' = "done" => exit_code' # 0
    ]_vars

\* an --apply run has ended with status 1 at its second entry, which lacks
\* a key, after the first entry repaired a broken record in memory; the
\* store and the report files are as they were
C19_Witness ==
    /\ pc = "done" /\ exit_code = 1 /\ apply /\ files = "ok"
    /\ idx = 2
    /\ ~(SourceKeys \subseteq DOMAIN source[2])
    /\ results.url_updates_applied # << >>
    /\ target # target_file
    /\ report_dir = NoReports

(***************************************************************************)
(* batch-update.py: main()                                                 *)
(***************************************************************************)

MaxSession == 2

VALID_STATUSES ==
    {"pending", "working", "broken", "paid-only", "needs-key", "skipped"}

\* str(date.today())
Today == "2026-11-04"

\* The directives a session file may hold: "foo" set working with a try-it,
\* "Bar" set broken, "Bar" set back to pending, a name the store does not
\* hold, and directives without a name, without a status, without notes and
\* with a status outside the permitted ones.
DirectivePool ==
    { [name |-> <<"f","o","o">>, status |-> "working",
       notes |-> <<"2","0","0">>, try_it |-> "probe2"],
      [name |-> <<"B","a","r">>, status |-> "broken",
       notes |-> <<"d","e","a","d">>],
      [name |-> <<"B","a","r">>, status |-> "pending", notes |-> << >>],
      [name |-> <<"N","o","p","e">>, status |-> "skipped",
       notes |-> <<"n">>],
      [status |-> "working", notes |-> <<"2","0","0">>],
      [name |-> <<"F","o","o">>, notes |-> <<"2","0","0">>],
      [name |-> <<"F","o","o">>, status |-> "working"],
      [name |-> <<"F","o","o">>, status |-> "dead",
       notes |-> <<"d","e","a","d">>] }

\* what the session path may lead to: nothing, a JSON array, a JSON object
SessionFiles ==
    {NoSession, [kind |-> "object", updates |-> << >>]}
        \cup {[kind |-> "list", updates |-> u] :
                 u \in SeqsUpTo(DirectivePool, MaxSession)}

\* the checks of the validation loop without the one on the status value
ValidationError_AnyStatus(u) ==
    IF "name" \notin DOMAIN u THEN "name"
    ELSE IF "status" \notin DOMAIN u THEN "status"
    ELSE IF "notes" \notin DOMAIN u THEN "notes"
    ELSE "none"

\* the first check of the validation loop that the directive fails, "none"
\* when it passes them all
ValidationError(u) ==
    IF "name" \notin DOMAIN u THEN "name"
    ELSE IF "status" \notin DOMAIN u THEN "status"
    ELSE IF u.status \notin VALID_STATUSES THEN "invalid status"
    ELSE IF "notes" \notin DOMAIN u THEN "notes"
    ELSE "none"

\* matches = [a for a in apis if a["name"].lower() == u["name"].lower()],
\* as the positions of the matching records
Matches(apis, u) ==
    {k \in DOMAIN apis : lower(apis[k].name) = lower(u.name)}

\* the position of matches[0]
FirstMatch(apis, u) ==
    CHOOSE k \in Matches(apis, u) : \A j \in Matches(apis, u) : k <= j

\* the record after the assignments of the loop body
ApplyDirective(api, u, today) ==
    LET a1 == [api EXCEPT !.status = u.status, !.notes = u.notes]
        a2 == IF u.status # "pending"
              THEN [a1 EXCEPT !.date_checked = today]
              ELSE a1
    IN  IF "try_it" \in DOMAIN u
        THEN [a2 EXCEPT !.try_it = u.try_it]
        ELSE a2

\* argument parsing, the session file's checks and its loading
BatchStart ==
    /\ batch.pc = "idle"
    /\ \E dry \in BOOLEAN :
        batch' =
            IF session_file.kind # "list"
            THEN [batch EXCEPT !.pc = "done", !.dry_run = dry,
                               !.exit_code = 1]
            ELSE [batch EXCEPT !.pc = "validate", !.dry_run = dry,
                               !.updates = session_file.updates, !.i = 1]
    /\ UNCHANGED <<mainvars, normvars, session_file>>

\* one iteration of the validation loop
BatchValidate ==
    /\ batch.pc = "validate"
    /\ batch.i <= Len(batch.updates)
    /\ batch' =
        IF ValidationError(batch.updates[batch.i]) # "none"
        THEN [batch EXCEPT !.pc = "done", !.exit_code = 1]
        ELSE [batch EXCEPT !.i = batch.i + 1]
    /\ UNCHANGED <<mainvars, normvars, session_file>>

\* after the validation loop: the store is loaded and the counts start at 0;
\* open() raises when the store is missing
BatchLoad ==
    /\ batch.pc = "validate"
    /\ batch.i > Len(batch.updates)
    /\ batch' =
        IF files = "no_target"
        THEN [batch EXCEPT !.pc = "done", !.exit_code = 1]
        ELSE [batch EXCEPT !.pc = "apply", !.apis = target_file, !.i = 1,
                           !.success = 0, !.failed = 0]
    /\ UNCHANGED <<mainvars, normvars, session_file>>

\* a faulty variant of BatchApply: a directive that matches nothing ends the
\* loop
BatchApply_StopsAtMiss ==
    /\ batch.pc = "apply"
    /\ batch.i <= Len(batch.updates)
    /\ LET u == batch.updates[batch.i]
       IN  batch' =
            IF Matches(batch.apis, u) = {}
            THEN [batch EXCEPT !.failed = batch.failed + 1,
                               !.i = Len(batch.updates) + 1]
            ELSE LET k == FirstMatch(batch.apis, u)
                 IN  [batch EXCEPT
                        !.apis = IF batch.dry_run
                                 THEN batch.apis
                                 ELSE [batch.apis EXCEPT
                                         ![k] = ApplyDirective(
                                                    batch.apis[k], u, Today)],
                        !.success = batch.success + 1,
                        !.i = batch.i + 1]
    /\ UNCHANGED <<mainvars, normvars, session_file>>

\* one iteration of the loop over the updates
BatchApply ==
    /\ batch.pc = "apply"
    /\ batch.i <= Len(batch.updates)
    /\ LET u == batch.updates[batch.i]
       IN  batch' =
            IF Matches(batch.apis, u) = {}
            THEN [batch EXCEPT !.failed = batch.failed + 1,
                               !.i = batch.i + 1]
            ELSE LET k == FirstMatch(batch.apis, u)
                 IN  [batch EXCEPT
                        !.apis = IF batch.dry_run
                                 THEN batch.apis
                                 ELSE [batch.apis EXCEPT
                                         ![k] = ApplyDirective(
                                                    batch.apis[k], u, Today)],
                        !.success = batch.success + 1,
                        !.i = batch.i + 1]
    /\ UNCHANGED <<mainvars, normvars, session_file>>

\* after the loop: the store is written unless this is a dry run or nothing
\* matched, and main() returns
BatchFinish ==
    /\ batch.pc = "apply"
    /\ batch.i > Len(batch.updates)
    /\ batch' = [batch EXCEPT !.pc = "done", !.exit_code = 0,
                              !.wrote = ~batch.dry_run /\ batch.success > 0]
    /\ target_file' = IF ~batch.dry_run /\ batch.success > 0
                      THEN batch.apis
                      ELSE target_file
    /\ UNCHANGED <<files, source_file, report_dir, pc, apply, target, source,
                   tested_before, lookup, results, idx, merged, tested_after,
                   exit_code, written, prev, normvars, session_file>>

\* One run of batch-update.py over a store and a session file
BatchInit ==
    /\ files \in {"ok", "no_target"}
    /\ target_file \in SeqsUpTo(TargetPool, MaxTarget)
    /\ files = "ok" \/ target_file = << >>
    /\ source_file = << >>
    /\ session_file \in SessionFiles
    /\ batch = BatchIdle
    /\ report_dir = NoReports
    /\ pc = "idle"
    /\ apply = FALSE
    /\ target = << >>
    /\ source = << >>
    /\ tested_before = 0
    /\ lookup = EmptyLookup
    /\ results = MergeResults
    /\ idx = 1
    /\ merged = << >>
    /\ tested_after = 0
    /\ exit_code = "none"
    /\ written = FALSE
    /\ prev = [wrote |-> FALSE, inserted |-> << >>]
    /\ arg = << >>
    /\ ret = NoCall

BatchNext ==
    \/ BatchStart
    \/ BatchValidate
    \/ BatchLoad
    \/ BatchApply
    \/ BatchFinish

BatchSpec == BatchInit /\ [][BatchNext]_vars

\* a directive that has a name, a status and notes, the status being one of
\* the six permitted values
WellFormed(u) ==
    /\ {"name", "status", "notes"} \subseteq DOMAIN u
    /\ u.status \in {"pending", "working", "broken", "paid-only",
                     "needs-key", "skipped"}

SomeDirectiveInvalid ==
    /\ session_file.kind = "list"
    /\ \E k \in DOMAIN session_file.updates :
           ~WellFormed(session_file.updates[k])

\* C20: when any directive of the session file lacks name, status or notes,
\* or has a status outside the six permitted values, no step of the run
\* changes the store, no directive is applied (the store's records are never
\* loaded and nothing is counted as updated), and the run ends with a
\* non-zero exit status; the valid directives before the invalid one are
\* not applied either.
C20_ValidationAllOrNothing ==
    [][SomeDirectiveInvalid =>
          /\ target_file' = target_file
          /\ batch'.apis = << >>
          /\ batch'.success = 0
          /\ batch'.pc # "apply"
          /\ (batch'.pc = "done" => batch'.exit_code # 0)]_vars

\* a run that was not a dry run ended with status 1 at the second directive,
\* the first one being valid and naming a record of the store
C20_Witness ==
    /\ batch.pc = "done"
    /\ batch.exit_code = 1
    /\ ~batch.dry_run
    /\ Len(batch.updates) = 2
    /\ batch.i = 2
    /\ WellFormed(batch.updates[1])
    /\ ~WellFormed(batch.updates[2])
    /\ Matches(target_file, batch.updates[1]) # {}
    /\ batch.apis = << >>

\* the directives of the run whose name is the name of no record of the
\* store, letter case apart
Misses ==
    {i \in DOMAIN batch.updates :
        \A k \in DOMAIN target_file :
            lower(target_file[k].name) # lower(batch.updates[i].name)}

\* the directives of the run that change record k: those whose name is its
\* name, letter case apart, no earlier record having that name
DirectivesFor(k) ==
    {i \in DOMAIN batch.updates :
        /\ lower(target_file[k].name) = lower(batch.updates[i].name)
        /\ \A j \in 1..(k - 1) :
               lower(target_file[j].name) # lower(batch.updates[i].name)}

\* C21: a batch whose directives are all valid runs to its end whatever
\* misses: the directives whose name matches no record are the failed ones,
\* all the others are counted as updated and, unless this is a dry run, the
\* record each one names holds the status of the last directive naming it;
\* updated + failed is the number of directives, and the store is written
\* exactly when the run is not a dry run and some directive matched.
C21_MissesCountedBatchContinues ==
    (batch.pc = "done" /\ batch.exit_code = 0) =>
        /\ batch.failed = Cardinality(Misses)
        /\ batch.success = Len(batch.updates) - Cardinality(Misses)
        /\ batch.success + batch.failed = Len(batch.updates)
        /\ batch.wrote <=> (~batch.dry_run /\ batch.success > 0)
        /\ batch.wrote =>
              /\ target_file = batch.apis
              /\ \A k \in DOMAIN target_file :
                    DirectivesFor(k) # {} =>
                        LET last == CHOOSE i \in DirectivesFor(k) :
                                        \A j \in DirectivesFor(k) : j <= i
                        IN  target_file[k].status = batch.updates[last].status

\* a run that was not a dry run missed with its first directive, applied its
\* second one and wrote the store
C21_Witness ==
    /\ batch.pc = "done"
    /\ batch.exit_code = 0
    /\ ~batch.dry_run
    /\ Len(batch.updates) = 2
    /\ Misses = {1}
    /\ batch.failed = 1
    /\ batch.success = 1
    /\ batch.wrote
    /\ \E k \in DOMAIN target_file :
          /\ DirectivesFor(k) = {2}
          /\ target_file[k].status = batch.updates[2].status
          /\ target_file[k].date_checked = Today

\* a step of the loop over the updates that applies its directive to a record
ApplyStep ==
    /\ batch.pc = "apply"
    /\ batch.i <= Len(batch.updates)
    /\ ~batch.dry_run
    /\ Matches(batch.apis, batch.updates[batch.i]) # {}

\* C22: a directive applied to a record sets the record's date-checked
\* exactly when the status leaves pending: it becomes today's date when the
\* status goes from pending to another value, and it is left as it was when
\* the status was not pending before or is set to pending.
C22_DateCheckedOnLeavingPending ==
    [][ApplyStep =>
          LET u   == batch.updates[batch.i]
              k   == FirstMatch(batch.apis, u)
              old == batch.apis[k]
              new == batch'.apis[k]
          IN  IF old.status = "pending" /\ u.status # "pending"
              THEN new.date_checked = Today
              ELSE new.date_checked = old.date_checked]_vars

\* status == pending <=> date-checked == null
RecordInvariant(r) == (r.status = "pending") <=> (r.date_checked = None)

AllSatisfy(records) == \A k \in DOMAIN records : RecordInvariant(records[k])

\* C23: when every record of the store satisfies
\* status == pending <=> date-checked == null, every step of a merge run
\* leaves it true of the store, of the records in memory, of the records
\* queued as new and of the merged result; a record the step changed in
\* memory (an auto-update) and every record queued as new has a null try-it.
C23_PendingIffNoDate ==
    [][AllSatisfy(target_file) /\ AllSatisfy(target) =>
          /\ AllSatisfy(target_file')
          /\ AllSatisfy(target')
          /\ AllSatisfy(merged')
          /\ AllSatisfy(results'.new_apis)
          /\ \A k \in DOMAIN results'.new_apis :
                results'.new_apis[k].try_it = None
          /\ pc = "classify" /\ pc' = "classify" =>
                \A k \in DOMAIN target :
                    target'[k] # target[k] =>
                        /\ target'[k].status = "pending"
                        /\ target'[k].try_it = None]_vars

\* an --apply run wrote a store that holds a record it auto-updated, now
\* pending with no date and no try-it, a record it inserted, and a record
\* it left alone with a status other than pending and its date
C23_Witness ==
    /\ pc = "done" /\ written
    /\ results.url_updates_applied # << >>
    /\ results.new_apis # << >>
    /\ \E k \in DOMAIN target_file :
          /\ startswith(target_file[k].notes, Provenance)
          /\ target_file[k].status = "pending"
          /\ target_file[k].date_checked = None
          /\ target_file[k].try_it = None
    /\ \E k \in DOMAIN target_file :
          /\ target_file[k].status # "pending"
          /\ target_file[k].date_checked # None

(***************************************************************************)
(* Runs of main() on a store whose records share lookup keys               *)
(***************************************************************************)

\* The broken "Foo" and the working "foo" of TargetPool, which share their
\* lowercase name, their category and their domain, and "Qux", a working
\* record of another category whose URL normalizes as that of "Foo".
SharedKeyTargets ==
    {t \in TargetPool : lower(t.name) = <<"f","o","o">>}
        \cup { [name |-> <<"Q","u","x">>, url |-> UrlA1Variant,
                description |-> "d5", auth |-> <<"n","o","n","e">>,
                https |-> TRUE, cors |-> <<"n","o">>,
                category |-> <<"d","e","v">>, status |-> "working",
                notes |-> << >>, date_checked |-> "2026-01-04",
                try_it |-> None] }

\* "FOO" with a variant of the URL of "Foo" and "Qux", a new URL for "Foo",
\* "Baz" with the URL of "Foo" and "Qux", "foo" in another category with a
\* new URL, and "Baz" with a new URL on the domain of all three records.
SharedKeySources ==
    {e \in SourcePool : e.Description \in {"s1", "s2", "s3"}}
        \cup { [API |-> <<"f","o","o">>, Link |-> UrlA2, Description |-> "s7",
                Auth |-> << >>, HTTPS |-> FALSE, Cors |-> <<"n","o">>,
                Category |-> <<"D","e","v">>],
               [API |-> <<"B","a","z">>, Link |-> UrlA2, Description |-> "s8",
                Auth |-> << >>, HTTPS |-> FALSE, Cors |-> <<"n","o">>,
                Category |-> <<"D","e","v">>] }

\* the sequences of SeqsUpTo(S, n) that hold no element twice
DistinctSeqsUpTo(S, n) ==
    {q \in SeqsUpTo(S, n) : \A i, j \in DOMAIN q : i # j => q[i] # q[j]}

\* as Init, over the stores above and the catalogs of the sources above that
\* hold no entry twice
SharedKeyInit ==
    /\ files = "ok"
    /\ target_file \in SeqsUpTo(SharedKeyTargets, MaxTarget)
    /\ source_file \in DistinctSeqsUpTo(SharedKeySources, MaxSource)
    /\ report_dir = NoReports
    /\ pc = "idle"
    /\ apply = FALSE
    /\ target = << >>
    /\ source = << >>
    /\ tested_before = 0
    /\ lookup = EmptyLookup
    /\ results = MergeResults
    /\ idx = 1
    /\ merged = << >>
    /\ tested_after = 0
    /\ exit_code = "none"
    /\ written = FALSE
    /\ prev = [wrote |-> FALSE, inserted |-> << >>]
    /\ arg = << >>
    /\ ret = NoCall
    /\ session_file = NoSession
    /\ batch = BatchIdle

SharedKeySpec == SharedKeyInit /\ [][Next]_vars

\* the places of index d where record i is filed
Filings(d, i) ==
    {<<key, n>> \in UNION {{<<key, n>> : n \in DOMAIN d[key]} : key \in DOMAIN d} :
        d[key][n] = i}

\* record i is filed in d once, under key
FiledOnceUnder(d, i, key) ==
    /\ key \in DOMAIN d
    /\ Cardinality(Filings(d, i)) = 1
    /\ \E n \in DOMAIN d[key] : d[key][n] = i

\* every list of d holds records of the store, in the store's order
KeepsTargetOrder(d, records) ==
    \A key \in DOMAIN d :
        /\ d[key] # << >>
        /\ \A n \in DOMAIN d[key] : d[key][n] \in DOMAIN records
        /\ \A m, n \in DOMAIN d[key] : m < n => d[key][m] < d[key][n]

\* the index files the records of the store as build_lookup is said to
IndexOf(lk, records) ==
    /\ \A i \in DOMAIN records :
          LET r      == records[i]
              domain == get_domain(r.url)
          IN  /\ FiledOnceUnder(lk.by_name, i, lower(r.name))
              /\ FiledOnceUnder(lk.by_url, i, normalize_url(r.url))
              /\ FiledOnceUnder(lk.by_name_cat, i,
                                <<lower(r.name), r.category>>)
              /\ IF domain # << >> /\ domain \notin GENERIC_DOMAINS
                 THEN FiledOnceUnder(lk.by_domain, i, domain)
                 ELSE Filings(lk.by_domain, i) = {}
    /\ KeepsTargetOrder(lk.by_name, records)
    /\ KeepsTargetOrder(lk.by_url, records)
    /\ KeepsTargetOrder(lk.by_name_cat, records)
    /\ KeepsTargetOrder(lk.by_domain, records)

\* what the step reports of an existing record, and what it changes, comes
\* from the first record of the list of the source entry's key alone
FirstOfListOnly ==
    LET k       == KeysOf(source[idx])
        grew(f) == Len(results'[f]) > Len(results[f])
    IN  /\ \A j \in DOMAIN target :
              target'[j] # target[j] =>
                  j = lookup.by_name_cat[<<k.name, k.cat>>][1]
        /\ grew("renamed") =>
              Last(results'.renamed).existing_name
                  = target[lookup.by_url[k.url][1]].name
        /\ grew("url_updates") \/ grew("url_updates_applied") =>
              LET e == IF grew("url_updates")
                       THEN Last(results'.url_updates)
                       ELSE Last(results'.url_updates_applied)
                  x == target[lookup.by_name_cat[<<k.name, k.cat>>][1]]
              IN  e.current_url = x.url /\ e.current_status = x.status
        /\ grew("cross_category") =>
              LET e == Last(results'.cross_category)
                  x == target[lookup.by_name[k.name][1]]
              IN  /\ e.existing_name = x.name
                  /\ e.existing_category = x.category
                  /\ e.existing_url = x.url
        /\ grew("domain_matches") =>
              LET e == Last(results'.domain_matches)
                  x == target[lookup.by_domain[k.domain][1]]
              IN  /\ e.existing_name = x.name
                  /\ e.existing_category = x.category
                  /\ e.existing_url = x.url

C25_IndexFixedDuringPass ==
    [][ClassifyStep =>
          /\ lookup' = lookup
          /\ LET key == KeysOf(source[idx]).url
             IN  (key \in DOMAIN lookup.by_url)
                     <=> \/ Len(results'.duplicates) > Len(results.duplicates)
                         \/ Len(results'.renamed) > Len(results.renamed)
          /\ \A j \in DOMAIN target' :
                target'[j].url # target_file[j].url =>
                    /\ Filings(lookup'.by_url, j) # {}
                    /\ \A f \in Filings(lookup'.by_url, j) :
                          /\ f[1] = normalize_url(target_file[j].url)
                          /\ f[1] # normalize_url(target'[j].url)]_vars

\* the first entry of the source repaired a broken record with a new URL,
\* and the second entry, which carries the URL the record had in the store,
\* was reported as a renaming of that record
C25_Witness ==
    /\ pc = "classify"
    /\ idx = 3
    /\ Len(results.url_updates_applied) = 1
    /\ Len(results.renamed) = 1
    /\ \E j \in DOMAIN target :
          /\ target[j].url # target_file[j].url
          /\ target[j].url = source[1].Link
          /\ normalize_url(source[2].Link) = normalize_url(target_file[j].url)
          /\ results.renamed[1].existing_name = target[j].name
          /\ lookup.by_url[normalize_url(source[2].Link)][1] = j

(***************************************************************************)
(* Runs of main() on records with generic, empty and nested hosts          *)
(***************************************************************************)

\* "http://b.a.io/v2": a host that ends with the host of UrlA1
UrlSubA2 == <<"h","t","t","p",":","/","/","b",".","a",".","i","o","/","v","2">>

\* the broken "Foo" on a.io and the pending "Bar" on github.com
GenericHostTargets ==
    {t \in TargetPool : t.status = "broken" \/ t.url = UrlGitBar}

\* A new URL on github.com for "Foo", "Baz" on a.io, "Zed" on github.com,
\* "Sub" on b.a.io and "Nil" with no URL.
GenericHostSources ==
    {e \in SourcePool : e.Description = "s5"}
        \cup { [API |-> <<"F","o","o">>, Link |-> UrlGitZed,
                Description |-> "g1", Auth |-> << >>, HTTPS |-> TRUE,
                Cors |-> <<"n","o">>, Category |-> <<"T","o","o","l","s">>],
               [API |-> <<"B","a","z">>, Link |-> UrlA2,
                Description |-> "g2", Auth |-> << >>, HTTPS |-> FALSE,
                Cors |-> <<"n","o">>, Category |-> <<"D","e","v">>],
               [API |-> <<"S","u","b">>, Link |-> UrlSubA2,
                Description |-> "g4", Auth |-> << >>, HTTPS |-> FALSE,
                Cors |-> <<"n","o">>, Category |-> <<"D","e","v">>],
               [API |-> <<"N","i","l">>, Link |-> << >>,
                Description |-> "g5", Auth |-> << >>, HTTPS |-> FALSE,
                Cors |-> <<"n","o">>, Category |-> <<"D","e","v">>] }

\* as Init, over the stores above and the catalogs of the sources above that
\* hold no entry twice
GenericHostInit ==
    /\ files = "ok"
    /\ target_file \in SeqsUpTo(GenericHostTargets, MaxTarget)
    /\ source_file \in DistinctSeqsUpTo(GenericHostSources, MaxSource)
    /\ report_dir = NoReports
    /\ pc = "idle"
    /\ apply = FALSE
    /\ target = << >>
    /\ source = << >>
    /\ tested_before = 0
    /\ lookup = EmptyLookup
    /\ results = MergeResults
    /\ idx = 1
    /\ merged = << >>
    /\ tested_after = 0
    /\ exit_code = "none"
    /\ written = FALSE
    /\ prev = [wrote |-> FALSE, inserted |-> << >>]
    /\ arg = << >>
    /\ ret = NoCall
    /\ session_file = NoSession
    /\ batch = BatchIdle

GenericHostSpec == GenericHostInit /\ [][Next]_vars

\* the host of a URL, lowercased and without a leading "www.", as a whole
WholeHost(url) == StripWww(lower(urlparse(strip(url, Whitespace)).netloc))

\* a host that takes no part in domain matching
Excluded(host) == host = << >> \/ host \in GENERIC_DOMAINS

\* the step classified its entry as a domain match
DomainMatchStep ==
    /\ ClassifyStep
    /\ Len(results'.domain_matches) > Len(results.domain_matches)

\* the records the last entry of the domain matches names as the sibling
Siblings ==
    LET e == Last(results'.domain_matches)
    IN  {j \in DOMAIN target :
            /\ target[j].name = e.existing_name
            /\ target[j].url = e.existing_url
            /\ target[j].category = e.existing_category}

\* C26 as stated: a source entry whose host is denylisted or empty is never
\* classified as a domain match, and the sibling a domain match reports is
\* a target record whose host is neither, and is the host of the entry.
C26_GenericHostsNeverMatch ==
    [][DomainMatchStep =>
          /\ ~Excluded(WholeHost(source[idx].Link))
          /\ Siblings # {}
          /\ \A j \in Siblings :
                /\ ~Excluded(WholeHost(target[j].url))
                /\ WholeHost(target[j].url) = WholeHost(source[idx].Link)]_vars

\* C26, amended: a source entry whose host is denylisted or empty is never
\* classified as a domain match, and the sibling a domain match reports is
\* a target record whose host in the store as it was loaded is neither, and
\* is the host of the entry; the hosts are compared as whole strings.
C26_DenylistedAsLoaded ==
    [][DomainMatchStep =>
          /\ ~Excluded(WholeHost(source[idx].Link))
          /\ \E j \in Siblings :
                /\ ~Excluded(WholeHost(target_file[j].url))
                /\ WholeHost(target_file[j].url)
                       = WholeHost(source[idx].Link)]_vars

\* a run over a store with a record on a.io and a record on github.com has
\* classified an entry on a.io as a domain match of the first, and entries
\* on github.com, on b.a.io or without a URL as new with no domain match
C26_Witness ==
    /\ pc = "done"
    /\ Len(source) = 2
    /\ Len(results.domain_matches) = 1
    /\ Len(results.new_apis) = 2
    /\ WholeHost(results.domain_matches[1].source_url)
           = WholeHost(results.domain_matches[1].existing_url)
    /\ \E k \in DOMAIN results.new_apis :
          LET host == WholeHost(results.new_apis[k].url)
          IN  \/ Excluded(host)
              \/ host = <<"b",".","a",".","i","o">>
    /\ \E j \in DOMAIN target_file :
          WholeHost(target_file[j].url) \in GENERIC_DOMAINS

\* the records of the store that the pass has repaired so far
Repaired(records) ==
    {j \in DOMAIN records :
        target_file[j].status = "broken" /\ records[j].status = "pending"}

\* C27: in one pass a target record is auto-updated at most once: the record
\* a step changes was broken and is as the store holds it, and is pending
\* after the step; an entry that reaches tier 3 at a record the pass has
\* already repaired is flagged with current status pending and changes no
\* record; and the applied URL updates are as many as the records whose
\* status went from broken to pending.
C27_AutoUpdatedAtMostOnce ==
    [][ClassifyStep =>
          /\ \A j \in DOMAIN target :
                target'[j] # target[j] =>
                    /\ target[j] = target_file[j]
                    /\ target[j].status = "broken"
                    /\ target'[j].status = "pending"
          /\ Len(results'.url_updates_applied) = Cardinality(Repaired(target'))
          /\ LET k == KeysOf(source[idx])
             IN  (/\ EarliestTier(source[idx], lookup) = 3
                  /\ lookup.by_name_cat[<<k.name, k.cat>>][1] \in Repaired(target))
                     => /\ target' = target
                        /\ Len(results'.url_updates)
                               = Len(results.url_updates) + 1
                        /\ Last(results'.url_updates).current_status
                               = "pending"
                        /\ results'.url_updates_applied
                               = results.url_updates_applied]_vars

\* the first entry repaired a broken record and the second one, for the same
\* name and category, was flagged against the repaired, now pending, record
C27_Witness ==
    /\ pc = "classify"
    /\ idx = 3
    /\ Len(results.url_updates_applied) = 1
    /\ Len(results.url_updates) = 1
    /\ results.url_updates[1].current_status = "pending"
    /\ results.url_updates[1].current_url
           = results.url_updates_applied[1].source_url
    /\ Cardinality(Repaired(target)) = 1

\* C28: the safety abort after the merge cannot happen: when the pass is
\* over, the records of insert_sorted's result with a status other than
\* pending are exactly as many as before the merge less the applied URL
\* updates, the check of main() does not abort, and an --apply run that has
\* a new record or an applied URL update writes the store and ends with
\* status 0.
C28_SafetyAbortUnreachable ==
    [][FinishStep =>
          LET m       == insert_sorted(target, results.new_apis)
              applied == Len(results.url_updates_applied)
          IN  /\ Tested(m) = tested_before - applied
              /\ ~SafetyAbort(Tested(m), tested_before, applied)
              /\ (apply /\ ~NothingToMerge(results)) =>
                    /\ written'
                    /\ target_file' = m
                    /\ tested_after' = tested_before - applied
                    /\ exit_code' = 0]_vars

\* an --apply run that repaired a record and inserted a new one wrote the
\* store with one tested record less than before
C28_Witness ==
    /\ pc = "done" /\ apply /\ written
    /\ exit_code = 0
    /\ Len(results.url_updates_applied) = 1
    /\ results.new_apis # << >>
    /\ tested_before >= 1
    /\ tested_after = tested_before - 1
    /\ Tested(target_file) = tested_after

\* every list of the index names records of the target as it was loaded
NamesTargetOnly(d) ==
    \A key \in DOMAIN d : \A n \in DOMAIN d[key] : d[key][n] \in DOMAIN target_file

\* C29: a classification step adds nothing to the index, which names records
\* of the target only, and queues its entry as new exactly when the index
\* alone sends it to tier 5 or 6, whatever was queued before it; the store
\* an --apply run writes holds every queued record as many times as it was
\* queued, beside the records the target held.
C29_NewRecordsNeverIndexed ==
    [][/\ ClassifyStep =>
            /\ lookup' = lookup
            /\ NamesTargetOnly(lookup.by_name)
            /\ NamesTargetOnly(lookup.by_url)
            /\ NamesTargetOnly(lookup.by_name_cat)
            /\ NamesTargetOnly(lookup.by_domain)
            /\ IF EarliestTier(source[idx], lookup) \in {5, 6}
               THEN results'.new_apis
                        = Append(results.new_apis, transform_entry(source[idx]))
               ELSE results'.new_apis = results.new_apis
       /\ (FinishStep /\ written') =>
            \A k \in DOMAIN results.new_apis :
                Count(target_file', results.new_apis[k])
                    = Count(target, results.new_apis[k])
                          + Count(results.new_apis, results.new_apis[k])]_vars

\* an --apply run over a source that holds one entry twice, which matches
\* nothing in the target, queued it twice and wrote a store that holds the
\* record twice
C29_Witness ==
    /\ pc = "done" /\ written
    /\ Len(source) = 2
    /\ source[1] = source[2]
    /\ results.new_apis
           = <<transform_entry(source[1]), transform_entry(source[1])>>
    /\ results.domain_matches = << >>
    /\ Count(target_file, transform_entry(source[1])) = 2

\* some record of the store, as the run loaded it, has this lowercase name
NameInTarget(name_key) ==
    \E j \in DOMAIN target_file : lower(target_file[j].name) = name_key

\* some record of the store, as the run loaded it, has this normalized URL
UrlInTarget(url_key) ==
    \E j \in DOMAIN target_file : normalize_url(target_file[j].url) = url_key

\* C30: tier 1 tests the name and the URL each on its own: an entry is
\* classified duplicate whenever some record of the loaded target has its
\* lowercase name and some record, the same or another one, of any category,
\* has its normalized URL; and an entry is classified renamed only when its
\* normalized URL is in the loaded target and its lowercase name is the
\* name of no record of any category.
C30_NameAndUrlIndependent ==
    [][ClassifyStep =>
          LET k == KeysOf(source[idx])
          IN  /\ (NameInTarget(k.name) /\ UrlInTarget(k.url)) =>
                    /\ results'.duplicates
                           = Append(results.duplicates,
                                    transform_entry(source[idx]))
                    /\ results'.renamed = results.renamed
                    /\ results'.new_apis = results.new_apis
                    /\ target' = target
              /\ Len(results'.renamed) > Len(results.renamed) =>
                    /\ UrlInTarget(k.url)
                    /\ ~NameInTarget(k.name)]_vars

\* the first entry was classified duplicate although no record of the target
\* has both its name and its URL: one record has the name, a record of
\* another category has the URL; the second entry, whose name no record
\* has, was classified renamed
C30_Witness ==
    /\ pc = "classify"
    /\ idx = 3
    /\ Len(results.duplicates) = 1
    /\ Len(results.renamed) = 1
    /\ results.duplicates[1] = transform_entry(source[1])
    /\ LET d == results.duplicates[1]
       IN  /\ \A j \in DOMAIN target_file :
                 ~(/\ lower(target_file[j].name) = lower(d.name)
                   /\ normalize_url(target_file[j].url) = normalize_url(d.url))
           /\ \E j \in DOMAIN target_file :
                 /\ normalize_url(target_file[j].url) = normalize_url(d.url)
                 /\ target_file[j].category # d.category
    /\ ~NameInTarget(lower(results.renamed[1].source_name))

====
